---- MODULE Spec2Model ----
(***************************************************************************)
(* ZyraZoo (src/main.py): the opponent synthesizer, the combat resolver,   *)
(* the reward calculator, the difficulty window and the fusion economy of  *)
(* the Discord zoo bot, as a state machine over one player's profile.      *)
(*                                                                         *)
(* Numbers.  The code computes powers and percentages in floating point.   *)
(* Every power is a multiple of 0.025 and every percentage a multiple of   *)
(* 0.5, so the model keeps them as exact integers: a power is stored times *)
(* 40 (PowerScale), a percentage times 2, a window bound times 8000.       *)
(* Random draws are nondeterministic choices.  The reward is rounded from  *)
(* a floating-point product: where the exact product is halfway between    *)
(* two integers, both are outcomes of the rounding (FloatRound).           *)
(***************************************************************************)
EXTENDS Integers, Sequences, FiniteSets, TLC

\* ---------------------------------------------------------------- catalogs
ANIMALS ==
  << [animal_id |-> "mouse", rarity_index |-> 0, role |-> "ATTACK", hp |-> 7, atk |-> 6, defense |-> 1],
     [animal_id |-> "chicken", rarity_index |-> 0, role |-> "ATTACK", hp |-> 7, atk |-> 5, defense |-> 1],
     [animal_id |-> "fish", rarity_index |-> 0, role |-> "ATTACK", hp |-> 7, atk |-> 5, defense |-> 1],
     [animal_id |-> "pig", rarity_index |-> 0, role |-> "TANK", hp |-> 10, atk |-> 3, defense |-> 3],
     [animal_id |-> "cow", rarity_index |-> 0, role |-> "TANK", hp |-> 11, atk |-> 3, defense |-> 3],
     [animal_id |-> "ram", rarity_index |-> 0, role |-> "TANK", hp |-> 9, atk |-> 4, defense |-> 3],
     [animal_id |-> "sheep", rarity_index |-> 0, role |-> "TANK", hp |-> 9, atk |-> 3, defense |-> 4],
     [animal_id |-> "goat", rarity_index |-> 0, role |-> "TANK", hp |-> 8, atk |-> 4, defense |-> 3],
     [animal_id |-> "bug", rarity_index |-> 0, role |-> "SUPPORT", hp |-> 7, atk |-> 3, defense |-> 3],
     [animal_id |-> "ant", rarity_index |-> 0, role |-> "SUPPORT", hp |-> 6, atk |-> 3, defense |-> 3],
     [animal_id |-> "bird", rarity_index |-> 0, role |-> "SUPPORT", hp |-> 7, atk |-> 3, defense |-> 3],
     [animal_id |-> "dog", rarity_index |-> 1, role |-> "ATTACK", hp |-> 8, atk |-> 7, defense |-> 2],
     [animal_id |-> "cat", rarity_index |-> 1, role |-> "ATTACK", hp |-> 8, atk |-> 7, defense |-> 2],
     [animal_id |-> "snake", rarity_index |-> 1, role |-> "ATTACK", hp |-> 8, atk |-> 8, defense |-> 2],
     [animal_id |-> "horse", rarity_index |-> 1, role |-> "TANK", hp |-> 13, atk |-> 4, defense |-> 4],
     [animal_id |-> "boar", rarity_index |-> 1, role |-> "TANK", hp |-> 12, atk |-> 5, defense |-> 4],
     [animal_id |-> "deer", rarity_index |-> 1, role |-> "TANK", hp |-> 12, atk |-> 4, defense |-> 5],
     [animal_id |-> "turtle", rarity_index |-> 1, role |-> "TANK", hp |-> 14, atk |-> 2, defense |-> 5],
     [animal_id |-> "tropicalfish", rarity_index |-> 1, role |-> "SUPPORT", hp |-> 8, atk |-> 4, defense |-> 4],
     [animal_id |-> "wolf", rarity_index |-> 2, role |-> "ATTACK", hp |-> 9, atk |-> 9, defense |-> 3],
     [animal_id |-> "fox", rarity_index |-> 2, role |-> "ATTACK", hp |-> 9, atk |-> 9, defense |-> 3],
     [animal_id |-> "dolphin", rarity_index |-> 2, role |-> "ATTACK", hp |-> 10, atk |-> 8, defense |-> 3],
     [animal_id |-> "crocodile", rarity_index |-> 2, role |-> "TANK", hp |-> 15, atk |-> 5, defense |-> 6],
     [animal_id |-> "raccoon", rarity_index |-> 2, role |-> "SUPPORT", hp |-> 9, atk |-> 4, defense |-> 5],
     [animal_id |-> "owl", rarity_index |-> 2, role |-> "SUPPORT", hp |-> 9, atk |-> 3, defense |-> 6],
     [animal_id |-> "parrot", rarity_index |-> 2, role |-> "SUPPORT", hp |-> 8, atk |-> 4, defense |-> 5],
     [animal_id |-> "elephant", rarity_index |-> 3, role |-> "TANK", hp |-> 18, atk |-> 4, defense |-> 8],
     [animal_id |-> "hippo", rarity_index |-> 3, role |-> "TANK", hp |-> 19, atk |-> 4, defense |-> 8],
     [animal_id |-> "llama", rarity_index |-> 3, role |-> "TANK", hp |-> 16, atk |-> 5, defense |-> 7],
     [animal_id |-> "giraffe", rarity_index |-> 3, role |-> "TANK", hp |-> 17, atk |-> 5, defense |-> 7],
     [animal_id |-> "swan_epic", rarity_index |-> 3, role |-> "SUPPORT", hp |-> 11, atk |-> 4, defense |-> 7],
     [animal_id |-> "flamingo", rarity_index |-> 3, role |-> "SUPPORT", hp |-> 10, atk |-> 5, defense |-> 6],
     [animal_id |-> "shark", rarity_index |-> 4, role |-> "ATTACK", hp |-> 14, atk |-> 11, defense |-> 4],
     [animal_id |-> "mammoth", rarity_index |-> 4, role |-> "TANK", hp |-> 22, atk |-> 5, defense |-> 9],
     [animal_id |-> "seal", rarity_index |-> 4, role |-> "TANK", hp |-> 20, atk |-> 6, defense |-> 8],
     [animal_id |-> "whale", rarity_index |-> 4, role |-> "TANK", hp |-> 24, atk |-> 4, defense |-> 10],
     [animal_id |-> "octopus", rarity_index |-> 5, role |-> "SUPPORT", hp |-> 12, atk |-> 5, defense |-> 7],
     [animal_id |-> "butterfly", rarity_index |-> 5, role |-> "SUPPORT", hp |-> 10, atk |-> 4, defense |-> 6],
     [animal_id |-> "dragon", rarity_index |-> 6, role |-> "ATTACK", hp |-> 16, atk |-> 13, defense |-> 5],
     [animal_id |-> "trex", rarity_index |-> 6, role |-> "TANK", hp |-> 25, atk |-> 7, defense |-> 10],
     [animal_id |-> "unicorn", rarity_index |-> 6, role |-> "SUPPORT", hp |-> 14, atk |-> 6, defense |-> 8] >>

FOODS ==
  << [food_id |-> "apple", rarity_index |-> 0, cost |-> 10, hp_bonus |-> 2, atk_bonus |-> 0, def_bonus |-> 0],
     [food_id |-> "carrot", rarity_index |-> 0, cost |-> 10, hp_bonus |-> 1, atk_bonus |-> 1, def_bonus |-> 0],
     [food_id |-> "berry", rarity_index |-> 0, cost |-> 12, hp_bonus |-> 0, atk_bonus |-> 1, def_bonus |-> 1],
     [food_id |-> "bread", rarity_index |-> 0, cost |-> 15, hp_bonus |-> 2, atk_bonus |-> 0, def_bonus |-> 1],
     [food_id |-> "corn", rarity_index |-> 0, cost |-> 15, hp_bonus |-> 1, atk_bonus |-> 2, def_bonus |-> 0],
     [food_id |-> "honey", rarity_index |-> 1, cost |-> 30, hp_bonus |-> 3, atk_bonus |-> 1, def_bonus |-> 1],
     [food_id |-> "seaweed", rarity_index |-> 1, cost |-> 35, hp_bonus |-> 2, atk_bonus |-> 2, def_bonus |-> 1],
     [food_id |-> "mushroom", rarity_index |-> 1, cost |-> 35, hp_bonus |-> 1, atk_bonus |-> 2, def_bonus |-> 2],
     [food_id |-> "coconut", rarity_index |-> 1, cost |-> 40, hp_bonus |-> 4, atk_bonus |-> 0, def_bonus |-> 2],
     [food_id |-> "sushi", rarity_index |-> 2, cost |-> 80, hp_bonus |-> 3, atk_bonus |-> 4, def_bonus |-> 2],
     [food_id |-> "cheese", rarity_index |-> 2, cost |-> 75, hp_bonus |-> 5, atk_bonus |-> 2, def_bonus |-> 1],
     [food_id |-> "pepper", rarity_index |-> 2, cost |-> 85, hp_bonus |-> 0, atk_bonus |-> 6, def_bonus |-> 1],
     [food_id |-> "egg", rarity_index |-> 2, cost |-> 80, hp_bonus |-> 4, atk_bonus |-> 2, def_bonus |-> 2],
     [food_id |-> "steak", rarity_index |-> 3, cost |-> 200, hp_bonus |-> 6, atk_bonus |-> 6, def_bonus |-> 2],
     [food_id |-> "ramen", rarity_index |-> 3, cost |-> 210, hp_bonus |-> 4, atk_bonus |-> 5, def_bonus |-> 4],
     [food_id |-> "salmon", rarity_index |-> 3, cost |-> 220, hp_bonus |-> 5, atk_bonus |-> 5, def_bonus |-> 3],
     [food_id |-> "truffle", rarity_index |-> 3, cost |-> 230, hp_bonus |-> 3, atk_bonus |-> 6, def_bonus |-> 5],
     [food_id |-> "golden_apple", rarity_index |-> 4, cost |-> 500, hp_bonus |-> 10, atk_bonus |-> 6, def_bonus |-> 6],
     [food_id |-> "phoenix_pepper", rarity_index |-> 4, cost |-> 520, hp_bonus |-> 4, atk_bonus |-> 12, def_bonus |-> 4],
     [food_id |-> "royal_honey", rarity_index |-> 4, cost |-> 510, hp_bonus |-> 8, atk_bonus |-> 5, def_bonus |-> 8],
     [food_id |-> "stardust", rarity_index |-> 5, cost |-> 900, hp_bonus |-> 12, atk_bonus |-> 10, def_bonus |-> 10],
     [food_id |-> "moon_berry", rarity_index |-> 5, cost |-> 880, hp_bonus |-> 14, atk_bonus |-> 8, def_bonus |-> 8],
     [food_id |-> "dragons_feast", rarity_index |-> 6, cost |-> 1500, hp_bonus |-> 16, atk_bonus |-> 16, def_bonus |-> 12],
     [food_id |-> "unicorn_cake", rarity_index |-> 6, cost |-> 1550, hp_bonus |-> 14, atk_bonus |-> 12, def_bonus |-> 14],
     [food_id |-> "abyssal_ink", rarity_index |-> 6, cost |-> 1600, hp_bonus |-> 12, atk_bonus |-> 18, def_bonus |-> 10],
     [food_id |-> "ancient_seed", rarity_index |-> 5, cost |-> 950, hp_bonus |-> 18, atk_bonus |-> 6, def_bonus |-> 12] >>

MUTATION_ORDER == << "none", "golden", "diamond", "emerald", "rainbow" >>

MUTATIONS == { MUTATION_ORDER[k] : k \in 1..Len(MUTATION_ORDER) }

Slots == 1..3

\* slot1 = TANK, slot2 = ATTACK, slot3 = SUPPORT
SlotRole == << "TANK", "ATTACK", "SUPPORT" >>

AnimalIds == 1..Len(ANIMALS)

FoodIds == 1..Len(FOODS)

\* an empty team slot / no equipped food / no stored signature
NoAnimal == 0

NoFood == 0

NoSignature == << >>

Max2(a, b) == IF a >= b THEN a ELSE b

Min2(a, b) == IF a <= b THEN a ELSE b

\* powers are kept times 40
PowerScale == 40

\* ---------------------------------------------------------------- power model
\* hp*1.0 + atk*1.5 + defense*1.2, times 10
power(animal) ==
  10 * ANIMALS[animal].hp + 15 * ANIMALS[animal].atk + 12 * ANIMALS[animal].defense

\* the same weighting over the food's bonuses, 0 without food, times 10
food_power(food) ==
  IF food = NoFood THEN 0
  ELSE 10 * FOODS[food].hp_bonus + 15 * FOODS[food].atk_bonus + 12 * FOODS[food].def_bonus

\* mutant: the multipliers of diamond and emerald exchanged
mutation_multiplier_value_swapped(mutation) ==
  CASE mutation = "none"    -> 4
    [] mutation = "golden"  -> 5
    [] mutation = "diamond" -> 8
    [] mutation = "emerald" -> 6
    [] mutation = "rainbow" -> 20
    [] OTHER                -> 4

\* MUTATION_META[..]["ability_multiplier"], times 4
mutation_multiplier_value(mutation) ==
  CASE mutation = "none"    -> 4
    [] mutation = "golden"  -> 5
    [] mutation = "diamond" -> 6
    [] mutation = "emerald" -> 8
    [] mutation = "rainbow" -> 20
    [] OTHER                -> 4

\* (power + food_power) * multiplier, times 40
effective_power(animal, food, mutation_multiplier) ==
  (power(animal) + food_power(food)) * mutation_multiplier

\* a team is [animals, foods, mutations], each a triple indexed by slot
calculate_team_power(animals, foods, mutations) ==
  effective_power(animals[1], foods[1], mutation_multiplier_value(mutations[1]))
  + effective_power(animals[2], foods[2], mutation_multiplier_value(mutations[2]))
  + effective_power(animals[3], foods[3], mutation_multiplier_value(mutations[3]))

TeamPower(t) == calculate_team_power(t.animals, t.foods, t.mutations)

\* item-adjusted combat stats; the mutation plays no part
apply_food(animal, food) ==
  [ hp      |-> ANIMALS[animal].hp + (IF food = NoFood THEN 0 ELSE FOODS[food].hp_bonus),
    atk     |-> ANIMALS[animal].atk + (IF food = NoFood THEN 0 ELSE FOODS[food].atk_bonus),
    defense |-> ANIMALS[animal].defense + (IF food = NoFood THEN 0 ELSE FOODS[food].def_bonus) ]

\* "id:mutation|id:mutation|id:mutation"; ids hold neither ':' nor '|', so
\* the string is determined by, and determines, the ordered pairs
enemy_signature(animals, mutations) ==
  [ i \in Slots |-> << ANIMALS[animals[i]].animal_id, mutations[i] >> ]

\* ---------------------------------------------------------------- fusion table
FusionError == [ mutation |-> "ValueError", qty |-> 0 ]

\* mutant: every threshold compared with <= instead of <
roll_fusion_result_inclusive(input_mutation, roll) ==
  CASE input_mutation = "none" ->
         IF roll <= 50 THEN [ mutation |-> "golden", qty |-> 1 ]
         ELSE IF roll <= 75 THEN [ mutation |-> "diamond", qty |-> 1 ]
         ELSE IF roll <= 95 THEN [ mutation |-> "emerald", qty |-> 1 ]
         ELSE [ mutation |-> "rainbow", qty |-> 1 ]
    [] input_mutation = "golden" ->
         IF roll <= 50 THEN [ mutation |-> "diamond", qty |-> 1 ]
         ELSE IF roll <= 90 THEN [ mutation |-> "emerald", qty |-> 1 ]
         ELSE [ mutation |-> "rainbow", qty |-> 1 ]
    [] input_mutation = "diamond" ->
         IF roll <= 75 THEN [ mutation |-> "emerald", qty |-> 1 ]
         ELSE [ mutation |-> "rainbow", qty |-> 1 ]
    [] input_mutation = "emerald" ->
         IF roll <= 50 THEN [ mutation |-> "emerald", qty |-> 3 ]
         ELSE [ mutation |-> "rainbow", qty |-> 1 ]
    [] OTHER -> FusionError
\* roll is floor(random.random() * 100): every threshold is an integer
roll_fusion_result(input_mutation, roll) ==
  CASE input_mutation = "none" ->
         IF roll < 50 THEN [ mutation |-> "golden", qty |-> 1 ]
         ELSE IF roll < 75 THEN [ mutation |-> "diamond", qty |-> 1 ]
         ELSE IF roll < 95 THEN [ mutation |-> "emerald", qty |-> 1 ]
         ELSE [ mutation |-> "rainbow", qty |-> 1 ]
    [] input_mutation = "golden" ->
         IF roll < 50 THEN [ mutation |-> "diamond", qty |-> 1 ]
         ELSE IF roll < 90 THEN [ mutation |-> "emerald", qty |-> 1 ]
         ELSE [ mutation |-> "rainbow", qty |-> 1 ]
    [] input_mutation = "diamond" ->
         IF roll < 75 THEN [ mutation |-> "emerald", qty |-> 1 ]
         ELSE [ mutation |-> "rainbow", qty |-> 1 ]
    [] input_mutation = "emerald" ->
         IF roll < 50 THEN [ mutation |-> "emerald", qty |-> 3 ]
         ELSE [ mutation |-> "rainbow", qty |-> 1 ]
    [] OTHER -> FusionError

\* ---------------------------------------------------------------- difficulty window
\* mutant: golden counted as a stage of its own
mutation_stage_golden(mutation_key) ==
  CASE mutation_key = "golden"  -> 1
    [] mutation_key = "diamond" -> 2
    [] mutation_key = "emerald" -> 3
    [] mutation_key = "rainbow" -> 4
    [] OTHER                    -> 0
mutation_stage(mutation_key) ==
  CASE mutation_key = "diamond" -> 1
    [] mutation_key = "emerald" -> 2
    [] mutation_key = "rainbow" -> 3
    [] OTHER                    -> 0

FoodCount(foods) == Cardinality({ i \in Slots : foods[i] # NoFood })

MutatedCount(mutations) == Cardinality({ i \in Slots : mutations[i] # "none" })

HighestStage(mutations) ==
  Max2(mutation_stage(mutations[1]),
       Max2(mutation_stage(mutations[2]), mutation_stage(mutations[3])))

\* mutant: three mutated slots without food keep the upper end of the baseline
base_range_wide(mutated_count, food_count) ==
  IF mutated_count = 0
    THEN IF food_count = 0 THEN << 80, 150 >>
         ELSE IF food_count = 1 THEN << 80, 145 >>
         ELSE << 80, 140 >>
  ELSE IF mutated_count = 3
    THEN IF food_count = 0 THEN << 75, 150 >> ELSE << 70, 130 >>
  ELSE IF food_count = 0 THEN << 75, 135 >>
  ELSE << 70, 135 >>
\* base percentages << min, max >>
base_range(mutated_count, food_count) ==
  IF mutated_count = 0
    THEN IF food_count = 0 THEN << 80, 150 >>
         ELSE IF food_count = 1 THEN << 80, 145 >>
         ELSE << 80, 140 >>
  ELSE IF mutated_count = 3
    THEN IF food_count = 0 THEN << 75, 130 >> ELSE << 70, 130 >>
  ELSE IF food_count = 0 THEN << 75, 135 >>
  ELSE << 70, 135 >>

\* min_pct and max_pct, times 2: buff_per_stage = 5 * stage, half of it each side
WindowPct(foods, mutations) ==
  LET base == base_range(MutatedCount(mutations), FoodCount(foods))
      buff_per_stage == 5 * HighestStage(mutations)
  IN  [ base_min |-> base[1],
        base_max |-> base[2],
        min_pct  |-> Max2(0, 2 * base[1] - buff_per_stage),
        max_pct  |-> Max2(0, 2 * base[2] + buff_per_stage) ]

\* target_min and target_max, times 8000 (power times 40, percent times 2, over 100)
Window(player_power, foods, mutations) ==
  LET pct == WindowPct(foods, mutations)
  IN  [ base_min   |-> pct.base_min,
        base_max   |-> pct.base_max,
        min_pct    |-> pct.min_pct,
        max_pct    |-> pct.max_pct,
        target_min |-> player_power * pct.min_pct,
        target_max |-> player_power * pct.max_pct ]

\* target_min <= enemy_power <= target_max
InWindow(w, enemy_power) ==
  /\ w.target_min <= 200 * enemy_power
  /\ 200 * enemy_power <= w.target_max

\* ---------------------------------------------------------------- state
VARIABLES
  zoo,                    \* profile["zoo"]: animal -> mutation -> owned units
  owned_counts,           \* store.data["global"]["owned_counts"]: animal -> units
  team,                   \* profile["team"]: slot -> [animal, mutation], animal 0 = empty
  equipped_foods,         \* profile["equipped_foods"]: slot -> food, 0 = none
  equipped_food_wins,     \* profile["equipped_food_wins"]: slot -> wins
  coins,                  \* profile["coins"]
  energy,                 \* profile["energy"]
  battles_won,            \* profile["battles_won"]
  cooldowns,              \* profile["cooldowns"]
  last_enemy_signature,   \* profile["last_enemy_signature"]
  now,                    \* time.time(), in seconds
  pending,                \* /sell handlers waiting at view.wait(): their sale plans
  foods_owned,            \* profile["foods"]: food -> units in the inventory
  DAILY_COOLDOWNS,        \* DAILY_COOLDOWNS[user_id], kept in memory only: 0 = no entry
  pc,                     \* position of the running /battle handler, "idle" between commands
  sample,                 \* phase A of /battle: attempt count and the tracked candidates
  enemy,                  \* the chosen opponent team, repaired in place
  adjust,                 \* adjust_enemy_team: which call, which loop, iterations done
  fight,                  \* combat: rounds, whose pass, next acting slot, health maps
  last                    \* the last command or function call with its inputs and its reply

vars == << zoo, owned_counts, team, equipped_foods, equipped_food_wins, coins, energy,
           battles_won, cooldowns, last_enemy_signature, now, pending, foods_owned,
           DAILY_COOLDOWNS, pc, sample,
           enemy, adjust,
           fight, last >>

profileVars == << zoo, owned_counts, team, equipped_foods, equipped_food_wins, coins,
                  energy, battles_won, cooldowns, last_enemy_signature >>

battleVars == << pc, sample, enemy, adjust, fight >>

\* no food in the inventory
NoFoods == [ f \in FoodIds |-> 0 ]

EmptySlot == [ animal |-> NoAnimal, mutation |-> "none" ]

NoTeam == [ animals |-> << >>, foods |-> << >>, mutations |-> << >> ]

\* ---------------------------------------------------------------- inventory
default_mutation_counts == [ m \in MUTATIONS |-> 0 ]

get_owned_count(z, animal, mutation) == Max2(0, z[animal][mutation])

\* the zoo after adding max(0, qty) units
add_animal(z, animal, mutation, qty) ==
  IF Max2(0, qty) <= 0 THEN z
  ELSE [ z EXCEPT ![animal][mutation] = Max2(0, @) + Max2(0, qty) ]

\* mutant: the number asked for is reported, owned or not
remove_animal_removed_asked(z, animal, mutation, qty) ==
  IF Max2(0, qty) <= 0 THEN 0
  ELSE Max2(0, qty)
\* the number of units removed: min(owned, max(0, qty))
remove_animal_removed(z, animal, mutation, qty) ==
  IF Max2(0, qty) <= 0 THEN 0
  ELSE Min2(Max2(0, z[animal][mutation]), Max2(0, qty))

\* mutant: one unit fewer leaves the zoo than is reported removed
remove_animal_short(z, animal, mutation, qty) ==
  IF Max2(0, qty) <= 0 THEN z
  ELSE [ z EXCEPT ![animal][mutation] =
           Max2(0, Max2(0, @) - (remove_animal_removed(z, animal, mutation, qty) - 1)) ]
\* the zoo after the removal
remove_animal(z, animal, mutation, qty) ==
  IF Max2(0, qty) <= 0 THEN z
  ELSE [ z EXCEPT ![animal][mutation] =
           Max2(0, Max2(0, @) - remove_animal_removed(z, animal, mutation, qty)) ]

reserved_count(t, animal, mutation) ==
  Cardinality({ i \in Slots : t[i].animal = animal /\ t[i].mutation = mutation })

\* mutant: the units reserved by the team are not held back
sellable_amount_unreserved(z, t, animal, mutation) ==
  Max2(0, get_owned_count(z, animal, mutation))
sellable_amount(z, t, animal, mutation) ==
  Max2(0, get_owned_count(z, animal, mutation) - reserved_count(t, animal, mutation))

\* mutant: units that leave a zoo are not taken from the global count
adjust_owned_count_addsOnly(oc, animal, delta) ==
  [ oc EXCEPT ![animal] = Max2(0, @ + Max2(0, delta)) ]
\* DataStore.adjust_owned_count: the global count of the animal, clamped at 0
adjust_owned_count(oc, animal, delta) ==
  [ oc EXCEPT ![animal] = Max2(0, @ + delta) ]

\* the first mutation in MUTATIONS order with an owned unit, 0 when there is none
FirstOwnedMutation(z, animal) ==
  IF \E k \in 1..Len(MUTATION_ORDER) : z[animal][MUTATION_ORDER[k]] > 0
    THEN LET k == CHOOSE k \in 1..Len(MUTATION_ORDER) :
                    /\ z[animal][MUTATION_ORDER[k]] > 0
                    /\ \A j \in 1..(k - 1) : z[animal][MUTATION_ORDER[j]] <= 0
         IN  k
  ELSE 0

\* mutant: the stored team is taken as it is
migrate_team_noRepair(t, z) == t
\* _migrate_profile, the team repair run by every load_profile: a slot whose
\* unit is not owned at its mutation moves to the first owned mutation of that
\* animal, or is cleared when no unit of the animal is owned
migrate_team(t, z) ==
  [ i \in Slots |->
      IF t[i].animal = NoAnimal THEN EmptySlot
      ELSE IF z[t[i].animal][t[i].mutation] > 0 THEN t[i]
      ELSE IF FirstOwnedMutation(z, t[i].animal) # 0
        THEN [ animal |-> t[i].animal,
               mutation |-> MUTATION_ORDER[FirstOwnedMutation(z, t[i].animal)] ]
      ELSE EmptySlot ]

\* ---------------------------------------------------------------- /fuse
NoResult == [ mutation |-> "none", qty |-> 0 ]

\* The /fuse handler from its inputs to its effects.  It runs without a
\* suspension point between load_profile and save_profile.
fuse(animal, mutation, roll) ==
  LET unchanged(reply, t) ==
        [ zoo |-> zoo, owned_counts |-> owned_counts, team |-> t, reply |-> reply,
          removed |-> 0, result |-> NoResult ]
  IN
  IF animal = NoAnimal THEN unchanged("unknown_animal", team)
  ELSE IF mutation \notin MUTATIONS THEN unchanged("invalid_mutation", team)
  ELSE IF mutation = "rainbow" THEN unchanged("rainbow_refused", team)
  ELSE
    LET loaded    == migrate_team(team, zoo)
        available == sellable_amount(zoo, loaded, animal, mutation)
        removed   == remove_animal_removed(zoo, animal, mutation, 4)
        taken     == remove_animal(zoo, animal, mutation, 4)
        result    == roll_fusion_result(mutation, roll)
    IN
    IF available < 4 THEN unchanged("not_enough", loaded)
    ELSE IF removed < 4
      THEN [ zoo |-> taken, owned_counts |-> owned_counts, team |-> loaded,
             reply |-> "fusion_failed", removed |-> removed, result |-> NoResult ]
    ELSE [ zoo          |-> add_animal(taken, animal, result.mutation, result.qty),
           owned_counts |-> adjust_owned_count(owned_counts, animal, result.qty - removed),
           team         |-> loaded,
           reply        |-> "fusion_complete",
           removed      |-> removed,
           result       |-> result ]

Fuse(animal, mutation, roll) ==
  /\ pc = "idle"
  /\ LET out == fuse(animal, mutation, roll)
     IN  /\ zoo' = out.zoo
         /\ owned_counts' = out.owned_counts
         /\ team' = out.team
         /\ last' = [ op |-> "fuse", animal |-> animal, mutation |-> mutation,
                      roll |-> IF out.reply = "fusion_complete" THEN roll ELSE 0,
                      reply |-> out.reply, removed |-> out.removed, result |-> out.result ]
  /\ UNCHANGED << equipped_foods, equipped_food_wins, coins, energy, battles_won,
                  cooldowns, last_enemy_signature, now, DAILY_COOLDOWNS, pending, foods_owned,
                  battleVars >>

\* ---------------------------------------------------------------- random draws
\* A random call is a nondeterministic choice.  The model explores, of every
\* call, these outcomes: random.choice(candidates) returns the first candidate
\* in catalog order; random_enemy_food returns no food or the first candidate
\* food; random_enemy_mutation returns a tier of DrawnTiers.  In one draw of
\* phase A at most MaxDrawn slot draws return a food or a tier other than
\* "none".
MaxDrawn == 1

DrawnTiers == { "none", "rainbow" }

FirstCandidate(S) == { x \in S : \A y \in S : x <= y }

\* mutant: the candidates of a draw are the units of the allowed rarities of
\* every role
Candidates_anyRole(allowed_indices, role) ==
  { a \in AnimalIds : ANIMALS[a].rarity_index \in allowed_indices }
Candidates(allowed_indices, role) ==
  { a \in AnimalIds : ANIMALS[a].role = role /\ ANIMALS[a].rarity_index \in allowed_indices }

\* outcomes of random.choice(candidates); empty exactly when the candidate
\* list is empty and random.choice raises IndexError
random_animal_by_rarity_and_role(allowed_indices, role) ==
  FirstCandidate(Candidates(allowed_indices, role))

Abs(x) == IF x < 0 THEN -x ELSE x

FoodCandidates(animal) ==
  LET near == { f \in FoodIds :
                  Abs(FOODS[f].rarity_index - ANIMALS[animal].rarity_index) <= 1 }
  IN  IF near = {} THEN FoodIds ELSE near

\* no food (roll >= 0.35) or a food within one rarity tier of the animal
random_enemy_food(animal) == { NoFood } \cup FirstCandidate(FoodCandidates(animal))

random_enemy_mutation == DrawnTiers

\* tables of the draws, one entry per allowed-rarity set and slot, per animal
AllowedSets == { { r \in 0..6 : avg - 1 <= r /\ r <= avg + 1 } : avg \in 0..6 }
               \cup { { r } : r \in 0..6 }

AnimalDraws ==
  [ al \in AllowedSets |->
      [ i \in Slots |-> random_animal_by_rarity_and_role(al, SlotRole[i]) ] ]

FoodDraws == [ a \in AnimalIds |-> random_enemy_food(a) ]

\* ---------------------------------------------------------------- repair helpers
MUTATION_STRENGTH_ORDER == MUTATION_ORDER

StrengthIndex(mutation) ==
  CHOOSE k \in 1..Len(MUTATION_STRENGTH_ORDER) : MUTATION_STRENGTH_ORDER[k] = mutation

\* the slot _downgrade_mutation lowers: highest multiplier, lowest slot on ties
\* (sorted is stable); 0 when every slot is "none"
DowngradeSlot(mutations) ==
  IF \A i \in Slots : mutations[i] = "none" THEN 0
  ELSE CHOOSE i \in Slots :
         \A j \in Slots :
           \/ StrengthIndex(mutations[j]) < StrengthIndex(mutations[i])
           \/ (StrengthIndex(mutations[j]) = StrengthIndex(mutations[i]) /\ i <= j)

downgrade_mutation(mutations) ==
  IF DowngradeSlot(mutations) = 0 THEN mutations
  ELSE [ mutations EXCEPT ![DowngradeSlot(mutations)] =
           MUTATION_STRENGTH_ORDER[StrengthIndex(@) - 1] ]

\* the slot _upgrade_mutation raises: lowest multiplier, lowest slot on ties;
\* 0 when every slot is at the top tier
UpgradeSlot(mutations) ==
  IF \A i \in Slots : mutations[i] = "rainbow" THEN 0
  ELSE CHOOSE i \in Slots :
         \A j \in Slots :
           \/ StrengthIndex(mutations[j]) > StrengthIndex(mutations[i])
           \/ (StrengthIndex(mutations[j]) = StrengthIndex(mutations[i]) /\ i <= j)

upgrade_mutation(mutations) ==
  IF UpgradeSlot(mutations) = 0 THEN mutations
  ELSE [ mutations EXCEPT ![UpgradeSlot(mutations)] =
           MUTATION_STRENGTH_ORDER[StrengthIndex(@) + 1] ]

\* the slot whose food _remove_highest_food clears: strictly highest food
\* power, lowest slot on ties; 0 when no slot has a food
RemoveFoodSlot(foods) ==
  IF \A i \in Slots : foods[i] = NoFood THEN 0
  ELSE CHOOSE i \in Slots :
         /\ foods[i] # NoFood
         /\ \A j \in Slots :
              foods[j] # NoFood =>
                \/ food_power(foods[j]) < food_power(foods[i])
                \/ (food_power(foods[j]) = food_power(foods[i]) /\ i <= j)

remove_highest_food(foods) ==
  IF RemoveFoodSlot(foods) = 0 THEN foods
  ELSE [ foods EXCEPT ![RemoveFoodSlot(foods)] = NoFood ]

\* max(FOODS.values(), key=food_power): the first food of highest power
strongest_food ==
  CHOOSE f \in FoodIds :
    \A g \in FoodIds :
      \/ food_power(g) < food_power(f)
      \/ (food_power(g) = food_power(f) /\ f <= g)

\* ---------------------------------------------------------------- /battle: setup
MaxAttempts == 300

MaxAdjust == 350

MaxFinal == 200

MaxRounds == 100

BattleCooldown == 10

player_animals == [ i \in Slots |-> team[i].animal ]

player_mutations == [ i \in Slots |-> team[i].mutation ]

player_foods == equipped_foods

player_final_power == calculate_team_power(player_animals, player_foods, player_mutations)

\* round(sum of rarity indices / 3); a third is never a tie
avg_index(animals) ==
  ( ANIMALS[animals[1]].rarity_index + ANIMALS[animals[2]].rarity_index
    + ANIMALS[animals[3]].rarity_index + 1 ) \div 3

allowed_indices(animals) ==
  { idx \in { avg_index(animals) - 1, avg_index(animals), avg_index(animals) + 1 } :
      0 <= idx /\ idx <= 6 }

PlayerAllowed == allowed_indices(player_animals)

PlayerWindow == Window(player_final_power, player_foods, player_mutations)

NoSample ==
  [ attempt |-> 0, best_candidate |-> NoTeam, best_delta |-> -1,
    best_in_range |-> NoTeam, best_in_range_not_same |-> NoTeam,
    seen_not_same |-> FALSE, seen_in_range |-> FALSE, seen_delta |-> -1 ]

NoAdjust == [ call |-> 0, loop |-> 0, iter |-> 0 ]

NoFight ==
  [ rounds |-> 0, turn |-> "none", idx |-> 0,
    player_hp |-> << 0, 0, 0 >>, enemy_hp |-> << 0, 0, 0 >> ]

BattleReply(reply) ==
  [ op |-> "battle", reply |-> reply, player_win |-> FALSE, coin_gain |-> 0,
    energy_gain |-> 0, cap_reached |-> FALSE ]

\* the except-branch of the handler: the exception ends the command
BattleFailed ==
  /\ pc' = "idle"
  /\ last' = BattleReply("battle_failed")

\* mutant: the refusal for an incomplete team starts the cooldown
BattleStart_stampOnRefusal ==
  /\ pc = "idle"
  /\ LET loaded == migrate_team(team, zoo)
     IN  /\ team' = loaded
         /\ IF cooldowns.battle > now
              THEN /\ last' = BattleReply("cooldown")
                   /\ UNCHANGED << battleVars, cooldowns >>
            ELSE IF \E i \in Slots : loaded[i].animal = NoAnimal
              THEN /\ last' = BattleReply("team_incomplete")
                   /\ cooldowns' = [ cooldowns EXCEPT !.battle = now + BattleCooldown ]
                   /\ UNCHANGED battleVars
            ELSE /\ last' = BattleReply("running")
                 /\ UNCHANGED cooldowns
                 /\ pc' = "sample"
                 /\ sample' = NoSample
                 /\ enemy' = NoTeam
                 /\ adjust' = NoAdjust
                 /\ fight' = NoFight
  /\ UNCHANGED << zoo, owned_counts, equipped_foods, equipped_food_wins, coins, energy,
                  battles_won, last_enemy_signature, now, DAILY_COOLDOWNS, pending, foods_owned >>
\* load_profile, the cooldown test and the team test
BattleStart ==
  /\ pc = "idle"
  /\ LET loaded == migrate_team(team, zoo)
     IN  /\ team' = loaded
         /\ IF cooldowns.battle > now
              THEN /\ last' = BattleReply("cooldown")
                   /\ UNCHANGED battleVars
            ELSE IF \E i \in Slots : loaded[i].animal = NoAnimal
              THEN /\ last' = BattleReply("team_incomplete")
                   /\ UNCHANGED battleVars
            ELSE /\ last' = BattleReply("running")
                 /\ pc' = "sample"
                 /\ sample' = NoSample
                 /\ enemy' = NoTeam
                 /\ adjust' = NoAdjust
                 /\ fight' = NoFight
  /\ UNCHANGED << zoo, owned_counts, equipped_foods, equipped_food_wins, coins, energy,
                  battles_won, cooldowns, last_enemy_signature, now, DAILY_COOLDOWNS, pending, foods_owned >>

\* ---------------------------------------------------------------- /battle: phase A
\* distance of a power to the window, in window units; 0 inside
Delta(w, enemy_power) ==
  IF 200 * enemy_power < w.target_min THEN w.target_min - 200 * enemy_power
  ELSE IF 200 * enemy_power > w.target_max THEN 200 * enemy_power - w.target_max
  ELSE 0

\* mutant: the tracked candidate is replaced by every draw that is farther from
\* the window
track_farthest(s, candidate, w, last_signature) ==
  LET enemy_power == TeamPower(candidate)
      delta       == Delta(w, enemy_power)
      closer      == s.best_delta = -1 \/ delta > s.best_delta
  IN  [ attempt                |-> s.attempt + 1,
        best_candidate         |-> IF closer THEN candidate ELSE s.best_candidate,
        best_delta             |-> IF closer THEN delta ELSE s.best_delta,
        best_in_range          |-> IF InWindow(w, enemy_power) /\ s.best_in_range = NoTeam
                                     THEN candidate ELSE s.best_in_range,
        best_in_range_not_same |-> s.best_in_range_not_same,
        seen_not_same          |-> s.seen_not_same,
        seen_in_range          |-> s.seen_in_range,
        seen_delta             |-> s.seen_delta ]
\* the tracked candidates after one draw that did not end the loop
track(s, candidate, w, last_signature) ==
  LET enemy_power == TeamPower(candidate)
      delta       == Delta(w, enemy_power)
      closer      == s.best_delta = -1 \/ delta < s.best_delta
  IN  [ attempt                |-> s.attempt + 1,
        best_candidate         |-> IF closer THEN candidate ELSE s.best_candidate,
        best_delta             |-> IF closer THEN delta ELSE s.best_delta,
        best_in_range          |-> IF InWindow(w, enemy_power) /\ s.best_in_range = NoTeam
                                     THEN candidate ELSE s.best_in_range,
        best_in_range_not_same |-> s.best_in_range_not_same,
        seen_not_same          |-> s.seen_not_same,
        seen_in_range          |-> s.seen_in_range,
        seen_delta             |-> s.seen_delta ]

\* the draw that ends the loop at once: in the window, signature not the last one
accepts(candidate, w, last_signature) ==
  /\ InWindow(w, TeamPower(candidate))
  /\ enemy_signature(candidate.animals, candidate.mutations) # last_signature

\* best_in_range_not_same or best_in_range or best_candidate
final_choice(s) ==
  IF s.best_in_range_not_same # NoTeam THEN s.best_in_range_not_same
  ELSE IF s.best_in_range # NoTeam THEN s.best_in_range
  ELSE s.best_candidate

\* after the loop: the final choice becomes the opponent and the first call of
\* adjust_enemy_team starts on it; the trackers are dead from here on
Chosen(s) ==
  IF final_choice(s) = NoTeam
    THEN /\ pc' = "idle"
         /\ last' = BattleReply("setup_failed")
         /\ sample' = NoSample
         /\ UNCHANGED << enemy, adjust >>
  ELSE /\ enemy' = final_choice(s)
       /\ adjust' = [ call |-> 1, loop |-> 1, iter |-> 0 ]
       /\ pc' = "adjust"
       /\ sample' = NoSample
       /\ UNCHANGED last

\* what the draws made so far have shown: whether one of them was in the window
\* with a signature other than the last one, whether one of them was in the
\* window at all, and the smallest distance to the window among them
seen(s, candidate, w, last_signature) ==
  LET enemy_power == TeamPower(candidate)
      signature   == enemy_signature(candidate.animals, candidate.mutations)
      distance    == IF InWindow(w, enemy_power) THEN 0
                     ELSE Min2(Abs(200 * enemy_power - w.target_min),
                               Abs(200 * enemy_power - w.target_max))
  IN  [ s EXCEPT !.seen_not_same = @ \/ (InWindow(w, enemy_power) /\ signature # last_signature),
                 !.seen_in_range = @ \/ InWindow(w, enemy_power),
                 !.seen_delta = IF @ = -1 THEN distance ELSE Min2(@, distance) ]

\* one draw of phase A; the loop is left on the break and after the 300th draw
Sample ==
  /\ pc = "sample"
  /\ sample.attempt < MaxAttempts
  /\ IF \E i \in Slots : AnimalDraws[PlayerAllowed][i] = {}
       THEN /\ BattleFailed
            /\ UNCHANGED << sample, enemy, adjust >>
     ELSE \E a1 \in AnimalDraws[PlayerAllowed][1],
             a2 \in AnimalDraws[PlayerAllowed][2],
             a3 \in AnimalDraws[PlayerAllowed][3] :
          \E f1 \in FoodDraws[a1], f2 \in FoodDraws[a2], f3 \in FoodDraws[a3] :
          \E m1 \in random_enemy_mutation, m2 \in random_enemy_mutation,
             m3 \in random_enemy_mutation :
            LET candidate == [ animals |-> << a1, a2, a3 >>, foods |-> << f1, f2, f3 >>,
                               mutations |-> << m1, m2, m3 >> ]
                tracked   == track(sample, candidate, PlayerWindow, last_enemy_signature)
            IN  /\ FoodCount(candidate.foods) + MutatedCount(candidate.mutations) <= MaxDrawn
                /\ IF accepts(candidate, PlayerWindow, last_enemy_signature)
                     THEN /\ sample' = seen([ sample EXCEPT !.best_in_range_not_same = candidate ],
                                            candidate, PlayerWindow, last_enemy_signature)
                          /\ pc' = "chosen"
                   ELSE /\ sample' = seen(tracked, candidate, PlayerWindow, last_enemy_signature)
                        /\ pc' = IF tracked.attempt = MaxAttempts THEN "chosen" ELSE "sample"
                /\ UNCHANGED << enemy, adjust, last >>
  /\ UNCHANGED << profileVars, now, DAILY_COOLDOWNS, pending, foods_owned, fight >>

\* the final choice after the loop, handed to the first call of adjust_enemy_team
Choose ==
  /\ pc = "chosen"
  /\ Chosen(sample)
  /\ UNCHANGED << profileVars, now, DAILY_COOLDOWNS, pending, foods_owned, fight >>

\* ---------------------------------------------------------------- /battle: repair
SetMin(S) == CHOOSE x \in S : \A y \in S : x <= y

SetMax(S) == CHOOSE x \in S : \A y \in S : x >= y

Outcome(t, status) == [ team |-> t, status |-> status ]

\* mutant: the final loop draws from every allowed rarity, like the first
reroll_unpinned(t, loop, above, allowed) ==
  LET rarities == allowed
      foodsFor(a) == IF above THEN { NoFood }
                     ELSE IF loop = 1 THEN FoodDraws[a] ELSE { strongest_food }
      mutationsFor == IF above THEN { "none" }
                      ELSE IF loop = 1 THEN random_enemy_mutation
                      ELSE { MUTATION_STRENGTH_ORDER[Len(MUTATION_STRENGTH_ORDER)] }
      rolled(slot, a) ==
        { Outcome([ animals   |-> [ t.animals EXCEPT ![slot] = a ],
                    foods     |-> [ t.foods EXCEPT ![slot] = f ],
                    mutations |-> [ t.mutations EXCEPT ![slot] = m ] ],
                  "continue") : f \in foodsFor(a), m \in mutationsFor }
  IN  UNION { IF AnimalDraws[rarities][slot] = {}
                THEN { Outcome(t, "IndexError") }
              ELSE UNION { rolled(slot, a) : a \in AnimalDraws[rarities][slot] }
              : slot \in Slots }
\* the re-roll of one random slot when nothing is left to remove or to add.
\* First loop: a unit of any allowed rarity; above the window no food and no
\* mutation, below it a random food and a random mutation.  Final loop: the
\* weakest allowed rarity bare, or the strongest allowed rarity with the
\* strongest food and the top mutation.
reroll(t, loop, above, allowed) ==
  LET rarities == IF loop = 1 THEN allowed
                  ELSE IF above THEN { SetMin(allowed) } ELSE { SetMax(allowed) }
      foodsFor(a) == IF above THEN { NoFood }
                     ELSE IF loop = 1 THEN FoodDraws[a] ELSE { strongest_food }
      mutationsFor == IF above THEN { "none" }
                      ELSE IF loop = 1 THEN random_enemy_mutation
                      ELSE { MUTATION_STRENGTH_ORDER[Len(MUTATION_STRENGTH_ORDER)] }
      rolled(slot, a) ==
        { Outcome([ animals   |-> [ t.animals EXCEPT ![slot] = a ],
                    foods     |-> [ t.foods EXCEPT ![slot] = f ],
                    mutations |-> [ t.mutations EXCEPT ![slot] = m ] ],
                  "continue") : f \in foodsFor(a), m \in mutationsFor }
  IN  UNION { IF AnimalDraws[rarities][slot] = {}
                THEN { Outcome(t, "IndexError") }
              ELSE UNION { rolled(slot, a) : a \in AnimalDraws[rarities][slot] }
              : slot \in Slots }

\* _add_missing_food: the teams it can leave with a new food (it returned True)
add_missing_food(t) ==
  { [ t EXCEPT !.foods[p[1]] = p[2] ] :
      p \in { q \in Slots \X FoodIds :
                t.foods[q[1]] = NoFood /\ q[2] \in FoodDraws[t.animals[q[1]]] } }

\* mutant: a team inside the window still loses its strongest food before the
\* function returns
adjust_iteration_late(t, loop, w, allowed) ==
  LET current_power == TeamPower(t)
      above == 200 * current_power > w.target_max
  IN
  IF InWindow(w, current_power) /\ RemoveFoodSlot(t.foods) = 0 THEN { Outcome(t, "return") }
  ELSE IF above \/ InWindow(w, current_power)
    THEN IF RemoveFoodSlot(t.foods) # 0
           THEN { Outcome([ t EXCEPT !.foods = remove_highest_food(@) ], "continue") }
         ELSE IF DowngradeSlot(t.mutations) # 0
           THEN { Outcome([ t EXCEPT !.mutations = downgrade_mutation(@) ], "continue") }
         ELSE reroll(t, loop, TRUE, allowed)
  ELSE { Outcome(u, "continue") : u \in add_missing_food(t) }
       \cup ( IF UpgradeSlot(t.mutations) # 0
                THEN { Outcome([ t EXCEPT !.mutations = upgrade_mutation(@) ], "continue") }
              ELSE reroll(t, loop, FALSE, allowed) )
\* one iteration of either loop of adjust_enemy_team: the possible outcomes
adjust_iteration(t, loop, w, allowed) ==
  LET current_power == TeamPower(t)
      above == 200 * current_power > w.target_max
  IN
  IF InWindow(w, current_power) THEN { Outcome(t, "return") }
  ELSE IF above
    THEN IF RemoveFoodSlot(t.foods) # 0
           THEN { Outcome([ t EXCEPT !.foods = remove_highest_food(@) ], "continue") }
         ELSE IF DowngradeSlot(t.mutations) # 0
           THEN { Outcome([ t EXCEPT !.mutations = downgrade_mutation(@) ], "continue") }
         ELSE reroll(t, loop, TRUE, allowed)
  ELSE { Outcome(u, "continue") : u \in add_missing_food(t) }
       \cup ( IF UpgradeSlot(t.mutations) # 0
                THEN { Outcome([ t EXCEPT !.mutations = upgrade_mutation(@) ], "continue") }
              ELSE reroll(t, loop, FALSE, allowed) )

Adjust ==
  /\ pc = "adjust"
  /\ \E o \in adjust_iteration(enemy, adjust.loop, PlayerWindow, PlayerAllowed) :
       /\ enemy' = o.team
       /\ IF o.status = "IndexError"
            THEN /\ BattleFailed
                 /\ UNCHANGED adjust
          ELSE /\ UNCHANGED last
               /\ IF o.status = "return"
                    THEN /\ pc' = "adjusted"
                         /\ UNCHANGED adjust
                  ELSE IF adjust.loop = 1 /\ adjust.iter + 1 = MaxAdjust
                    THEN /\ pc' = "adjust"
                         /\ adjust' = [ adjust EXCEPT !.loop = 2, !.iter = 0 ]
                  ELSE IF adjust.loop = 2 /\ adjust.iter + 1 = MaxFinal
                    THEN /\ pc' = "adjusted"
                         /\ adjust' = [ adjust EXCEPT !.iter = @ + 1 ]
                  ELSE /\ pc' = "adjust"
                       /\ adjust' = [ adjust EXCEPT !.iter = @ + 1 ]
  /\ UNCHANGED << profileVars, now, DAILY_COOLDOWNS, pending, foods_owned, sample, fight >>

\* after a call of adjust_enemy_team: store the signature (first call), repair
\* once more when the power is still outside the window, then set up combat
stats(animals, foods) == [ i \in Slots |-> apply_food(animals[i], foods[i]) ]

player_stats == stats(player_animals, player_foods)

\* mutant: the opponent's health and attack grow with the slot's mutation
enemy_stats_mutated ==
  [ i \in Slots |->
      [ hp      |-> (stats(enemy.animals, enemy.foods)[i].hp
                     * mutation_multiplier_value(enemy.mutations[i])) \div 4,
        atk     |-> (stats(enemy.animals, enemy.foods)[i].atk
                     * mutation_multiplier_value(enemy.mutations[i])) \div 4,
        defense |-> stats(enemy.animals, enemy.foods)[i].defense ] ]
enemy_stats == stats(enemy.animals, enemy.foods)

first_alive(hp_map) ==
  IF \E i \in Slots : hp_map[i] > 0
    THEN CHOOSE i \in Slots : hp_map[i] > 0 /\ \A j \in 1..(i - 1) : hp_map[j] <= 0
  ELSE 0

\* the state at the first test of the while loop and what it decides
start_fight(p_hp, e_hp) ==
  IF first_alive(p_hp) # 0 /\ first_alive(e_hp) # 0 /\ 0 < MaxRounds
    THEN [ rounds |-> 1, turn |-> "player", idx |-> 1, player_hp |-> p_hp, enemy_hp |-> e_hp ]
  ELSE [ rounds |-> 0, turn |-> "none", idx |-> 0, player_hp |-> p_hp, enemy_hp |-> e_hp ]

AfterAdjust ==
  /\ pc = "adjusted"
  /\ last_enemy_signature' =
       IF adjust.call = 1 THEN enemy_signature(enemy.animals, enemy.mutations)
       ELSE last_enemy_signature
  /\ IF adjust.call = 1 /\ ~InWindow(PlayerWindow, TeamPower(enemy))
       THEN /\ adjust' = [ call |-> 2, loop |-> 1, iter |-> 0 ]
            /\ pc' = "adjust"
            /\ UNCHANGED fight
     ELSE /\ fight' = start_fight([ i \in Slots |-> player_stats[i].hp ],
                                  [ i \in Slots |-> enemy_stats[i].hp ])
          /\ pc' = IF fight'.rounds = 0 THEN "resolve" ELSE "combat"
          /\ adjust' = NoAdjust
  /\ UNCHANGED << zoo, owned_counts, team, equipped_foods, equipped_food_wins, coins,
                  energy, battles_won, cooldowns, now, DAILY_COOLDOWNS, pending, foods_owned, sample, enemy, last >>

\* ---------------------------------------------------------------- /battle: combat
SumDefenseAlive(hp_map, st) ==
  (IF hp_map[1] > 0 THEN st[1].defense ELSE 0)
  + (IF hp_map[2] > 0 THEN st[2].defense ELSE 0)
  + (IF hp_map[3] > 0 THEN st[3].defense ELSE 0)

\* mutant: the defense of fallen defender slots still counts
attack_slot_alldef(attacker_hp, attacker_stats, defender_hp, defender_stats, slot) ==
  IF attacker_hp[slot] <= 0 THEN [ hp |-> defender_hp, brk |-> FALSE ]
  ELSE IF first_alive(defender_hp) = 0 THEN [ hp |-> defender_hp, brk |-> TRUE ]
  ELSE LET target_slot == first_alive(defender_hp)
           def_value   == defender_stats[1].defense + defender_stats[2].defense
                          + defender_stats[3].defense
           dmg         == Max2(1, attacker_stats[slot].atk - def_value)
       IN  [ hp  |-> [ defender_hp EXCEPT ![target_slot] = Max2(0, @ - dmg) ],
             brk |-> FALSE ]
\* mutant: the damage is subtracted without the clamp at 0
attack_slot_unclamped(attacker_hp, attacker_stats, defender_hp, defender_stats, slot) ==
  IF attacker_hp[slot] <= 0 THEN [ hp |-> defender_hp, brk |-> FALSE ]
  ELSE IF first_alive(defender_hp) = 0 THEN [ hp |-> defender_hp, brk |-> TRUE ]
  ELSE LET target_slot == first_alive(defender_hp)
           def_value   == SumDefenseAlive(defender_hp, defender_stats)
           dmg         == Max2(1, attacker_stats[slot].atk - def_value)
       IN  [ hp  |-> [ defender_hp EXCEPT ![target_slot] = @ - dmg ],
             brk |-> FALSE ]
\* mutant: a hit whose attack does not exceed the defense deals no damage
attack_slot_nomin(attacker_hp, attacker_stats, defender_hp, defender_stats, slot) ==
  IF attacker_hp[slot] <= 0 THEN [ hp |-> defender_hp, brk |-> FALSE ]
  ELSE IF first_alive(defender_hp) = 0 THEN [ hp |-> defender_hp, brk |-> TRUE ]
  ELSE LET target_slot == first_alive(defender_hp)
           def_value   == SumDefenseAlive(defender_hp, defender_stats)
           dmg         == Max2(0, attacker_stats[slot].atk - def_value)
       IN  [ hp  |-> [ defender_hp EXCEPT ![target_slot] = Max2(0, @ - dmg) ],
             brk |-> FALSE ]
\* one iteration of the for loop of attack_phase: the defender's health map
\* afterwards and whether the loop was left by break
attack_slot(attacker_hp, attacker_stats, defender_hp, defender_stats, slot) ==
  IF attacker_hp[slot] <= 0 THEN [ hp |-> defender_hp, brk |-> FALSE ]
  ELSE IF first_alive(defender_hp) = 0 THEN [ hp |-> defender_hp, brk |-> TRUE ]
  ELSE LET target_slot == first_alive(defender_hp)
           def_value   == SumDefenseAlive(defender_hp, defender_stats)
           dmg         == Max2(1, attacker_stats[slot].atk - def_value)
       IN  [ hp  |-> [ defender_hp EXCEPT ![target_slot] = Max2(0, @ - dmg) ],
             brk |-> FALSE ]

\* the while test after a full round
next_round(f) ==
  IF first_alive(f.player_hp) # 0 /\ first_alive(f.enemy_hp) # 0 /\ f.rounds < MaxRounds
    THEN [ f EXCEPT !.rounds = @ + 1, !.turn = "player", !.idx = 1 ]
  ELSE [ f EXCEPT !.turn = "none", !.idx = 0 ]

\* mutant: the opponent's pass follows without the test of line 2693
combat_step_noexit(f, p_stats, e_stats) ==
  IF f.turn = "player"
    THEN LET r == attack_slot(f.player_hp, p_stats, f.enemy_hp, e_stats, f.idx)
             g == [ f EXCEPT !.enemy_hp = r.hp ]
         IN  IF ~r.brk /\ f.idx < 3 THEN [ g EXCEPT !.idx = @ + 1 ]
             ELSE [ g EXCEPT !.turn = "enemy", !.idx = 1 ]
  ELSE LET r == attack_slot(f.enemy_hp, e_stats, f.player_hp, p_stats, f.idx)
           g == [ f EXCEPT !.player_hp = r.hp ]
       IN  IF ~r.brk /\ f.idx < 3 THEN [ g EXCEPT !.idx = @ + 1 ]
           ELSE next_round(g)
\* the combat position after the acting slot f.idx of the side f.turn
combat_step(f, p_stats, e_stats) ==
  IF f.turn = "player"
    THEN LET r == attack_slot(f.player_hp, p_stats, f.enemy_hp, e_stats, f.idx)
             g == [ f EXCEPT !.enemy_hp = r.hp ]
         IN  IF ~r.brk /\ f.idx < 3 THEN [ g EXCEPT !.idx = @ + 1 ]
             ELSE IF first_alive(g.enemy_hp) = 0 THEN [ g EXCEPT !.turn = "none", !.idx = 0 ]
             ELSE [ g EXCEPT !.turn = "enemy", !.idx = 1 ]
  ELSE LET r == attack_slot(f.enemy_hp, e_stats, f.player_hp, p_stats, f.idx)
           g == [ f EXCEPT !.player_hp = r.hp ]
       IN  IF ~r.brk /\ f.idx < 3 THEN [ g EXCEPT !.idx = @ + 1 ]
           ELSE next_round(g)

Combat ==
  /\ pc = "combat"
  /\ fight' = combat_step(fight, player_stats, enemy_stats)
  /\ pc' = IF fight'.turn = "none" THEN "resolve" ELSE "combat"
  /\ UNCHANGED << profileVars, now, DAILY_COOLDOWNS, pending, foods_owned, sample, enemy, adjust, last >>

\* ---------------------------------------------------------------- /battle: outcome and reward
cap_reached(f) ==
  f.rounds >= MaxRounds /\ first_alive(f.player_hp) # 0 /\ first_alive(f.enemy_hp) # 0

\* mutant: the healthiest slot instead of the sum
SumHp_max(hp_map) == Max2(0, Max2(hp_map[1], Max2(hp_map[2], hp_map[3])))
SumHp(hp_map) == Max2(0, hp_map[1]) + Max2(0, hp_map[2]) + Max2(0, hp_map[3])

\* mutant: the two sides exchanged in the elimination test
player_win_swapped(f) ==
  IF cap_reached(f) THEN SumHp(f.player_hp) > SumHp(f.enemy_hp)
  ELSE first_alive(f.player_hp) = 0 /\ first_alive(f.enemy_hp) # 0
player_win(f) ==
  IF cap_reached(f) THEN SumHp(f.player_hp) > SumHp(f.enemy_hp)
  ELSE first_alive(f.player_hp) # 0 /\ first_alive(f.enemy_hp) = 0

\* round(n / d) on the exact quotient, n >= 0, d > 0: to nearest, ties to even
Round(n, d) ==
  LET q == n \div d
      r == n % d
  IN  IF 2 * r < d THEN q
      ELSE IF 2 * r > d THEN q + 1
      ELSE IF q % 2 = 0 THEN q ELSE q + 1

\* round(x) where x is the binary floating-point evaluation of the quotient n / d:
\* the nearest integer; when the exact quotient is halfway between two integers
\* the representation error of the operands (0.6, 0.35, 1.25 / 3 ...) puts x on
\* either side, so both neighbours are outcomes
FloatRound(n, d) ==
  IF 2 * (n % d) = d THEN { n \div d, (n \div d) + 1 } ELSE { Round(n, d) }

\* coins_reward(enemy_power / player_power): max(5, round(10 * multiplier)), the
\* values the call can return
coins_reward(enemy_power, player_power) ==
  IF player_power > 0 THEN { Max2(5, r) : r \in FloatRound(10 * enemy_power, player_power) }
  ELSE { Max2(5, 10) }

\* RARITY_COIN_WEIGHT, times 20
RARITY_COIN_WEIGHT == << 12, 16, 20, 25, 32, 38, 48 >>

\* 1 + (multiplier - 1) * 0.35 + (1.05 - 1) * 0.5 with a food, times 10000
slot_factor(food, mutation) ==
  10000 + (mutation_multiplier_value(mutation) - 4) * 875
  + (IF food # NoFood THEN 250 ELSE 0)

\* max(5, round(base * mean rarity weight * min(mean slot factor, 1.6))), the
\* values the statement can produce
coin_gain(base_coins, animals, foods, mutations) ==
  LET weights == RARITY_COIN_WEIGHT[ANIMALS[animals[1]].rarity_index + 1]
                 + RARITY_COIN_WEIGHT[ANIMALS[animals[2]].rarity_index + 1]
                 + RARITY_COIN_WEIGHT[ANIMALS[animals[3]].rarity_index + 1]
      factors == slot_factor(foods[1], mutations[1]) + slot_factor(foods[2], mutations[2])
                 + slot_factor(foods[3], mutations[3])
  IN  { Max2(5, r) :
          r \in FloatRound(base_coins * weights * Min2(factors, 48000), 60 * 30000) }

\* mutant: the coins credited whatever the outcome
Resolve_creditOnLoss ==
  /\ pc = "resolve"
  /\ \E base \in coins_reward(TeamPower(enemy), player_final_power) :
     \E gain \in coin_gain(base, player_animals, player_foods, player_mutations) :
     LET won == player_win(fight)
     IN  /\ energy' = energy + (IF won THEN 1 ELSE 0)
         /\ coins' = coins + gain
         /\ cooldowns' = [ cooldowns EXCEPT !.battle = now + BattleCooldown ]
         /\ battles_won' = IF won THEN battles_won + 1 ELSE battles_won
         /\ equipped_food_wins' =
              IF won THEN [ i \in Slots |-> IF equipped_foods[i] # NoFood
                                              THEN equipped_food_wins[i] + 1
                                            ELSE equipped_food_wins[i] ]
              ELSE equipped_food_wins
         /\ last' = [ op |-> "battle", reply |-> IF won THEN "won" ELSE "lost",
                      player_win |-> won, coin_gain |-> gain,
                      energy_gain |-> IF won THEN 1 ELSE 0,
                      cap_reached |-> cap_reached(fight) ]
  /\ pc' = "idle"
  /\ UNCHANGED << zoo, owned_counts, team, equipped_foods, last_enemy_signature, now, DAILY_COOLDOWNS, pending,
                  foods_owned,
                  sample, enemy, adjust, fight >>

\* mutant: only a won battle starts the cooldown
Resolve_coolsOnWin ==
  /\ pc = "resolve"
  /\ \E base \in coins_reward(TeamPower(enemy), player_final_power) :
     \E gain \in ( IF player_win(fight)
                   THEN coin_gain(base, player_animals, player_foods, player_mutations)
                   ELSE { 0 } ) :
     LET won == player_win(fight)
     IN  /\ energy' = energy + (IF won THEN 1 ELSE 0)
         /\ coins' = coins + gain
         /\ cooldowns' = IF won THEN [ cooldowns EXCEPT !.battle = now + BattleCooldown ]
                         ELSE cooldowns
         /\ battles_won' = IF won THEN battles_won + 1 ELSE battles_won
         /\ equipped_food_wins' =
              IF won THEN [ i \in Slots |-> IF equipped_foods[i] # NoFood
                                              THEN equipped_food_wins[i] + 1
                                            ELSE equipped_food_wins[i] ]
              ELSE equipped_food_wins
         /\ last' = [ op |-> "battle", reply |-> IF won THEN "won" ELSE "lost",
                      player_win |-> won, coin_gain |-> gain,
                      energy_gain |-> IF won THEN 1 ELSE 0,
                      cap_reached |-> cap_reached(fight) ]
  /\ pc' = "idle"
  /\ UNCHANGED << zoo, owned_counts, team, equipped_foods, last_enemy_signature, now, DAILY_COOLDOWNS, pending,
                  foods_owned,
                  sample, enemy, adjust, fight >>
\* the end of battle: rewards, cooldown, wins
Resolve ==
  /\ pc = "resolve"
  /\ \E base \in coins_reward(TeamPower(enemy), player_final_power) :
     \E gain \in ( IF player_win(fight)
                   THEN coin_gain(base, player_animals, player_foods, player_mutations)
                   ELSE { 0 } ) :
     LET won == player_win(fight)
     IN  /\ energy' = energy + (IF won THEN 1 ELSE 0)
         /\ coins' = coins + gain
         /\ cooldowns' = [ cooldowns EXCEPT !.battle = now + BattleCooldown ]
         /\ battles_won' = IF won THEN battles_won + 1 ELSE battles_won
         /\ equipped_food_wins' =
              IF won THEN [ i \in Slots |-> IF equipped_foods[i] # NoFood
                                              THEN equipped_food_wins[i] + 1
                                            ELSE equipped_food_wins[i] ]
              ELSE equipped_food_wins
         /\ last' = [ op |-> "battle", reply |-> IF won THEN "won" ELSE "lost",
                      player_win |-> won, coin_gain |-> gain,
                      energy_gain |-> IF won THEN 1 ELSE 0,
                      cap_reached |-> cap_reached(fight) ]
  /\ pc' = "idle"
  /\ UNCHANGED << zoo, owned_counts, team, equipped_foods, last_enemy_signature, now, DAILY_COOLDOWNS, pending,
                  foods_owned,
                  sample, enemy, adjust, fight >>

\* ---------------------------------------------------------------- initial states
NowStart == 1000

\* requester teams of the battle specification, the first NumTeams are used:
\* pig/mouse/bug bare; the same with the strongest food and rainbow in every
\* slot; goat/fish/ant with a golden goat; trex/dragon/unicorn bare;
\* whale/shark/octopus with an apple; crocodile/wolf/owl, diamond wolf
PlayerTeams ==
  << [ animals |-> << 4, 1, 9 >>,    foods |-> << 0, 0, 0 >>,
       mutations |-> << "none", "none", "none" >> ],
     [ animals |-> << 4, 1, 9 >>,    foods |-> << 23, 23, 23 >>,
       mutations |-> << "rainbow", "rainbow", "rainbow" >> ],
     [ animals |-> << 8, 3, 10 >>,   foods |-> << 0, 0, 0 >>,
       mutations |-> << "golden", "none", "none" >> ],
     [ animals |-> << 40, 39, 41 >>, foods |-> << 0, 0, 0 >>,
       mutations |-> << "none", "none", "none" >> ],
     [ animals |-> << 36, 33, 37 >>, foods |-> << 1, 0, 0 >>,
       mutations |-> << "none", "none", "none" >> ],
     [ animals |-> << 23, 20, 25 >>, foods |-> << 0, 0, 0 >>,
       mutations |-> << "none", "diamond", "none" >> ] >>

NumTeams == 4

EmptyZoo == [ a \in AnimalIds |-> default_mutation_counts ]

\* _recalculate_owned_counts: per animal, the units over all mutations
recalculate_owned_counts(z) ==
  [ a \in AnimalIds |->
      z[a]["none"] + z[a]["golden"] + z[a]["diamond"] + z[a]["emerald"] + z[a]["rainbow"] ]

\* a zoo that owns one unit of each team member at its mutation
ZooOfTeam(t) ==
  [ a \in AnimalIds |->
      [ m \in MUTATIONS |->
          IF \E i \in Slots : t.animals[i] = a /\ t.mutations[i] = m THEN 1 ELSE 0 ] ]

\* the signature of the opponent made of the first candidate of every role, bare
FirstDrawSignature(t) ==
  enemy_signature([ i \in Slots |->
                      CHOOSE a \in AnimalDraws[allowed_indices(t.animals)][i] :
                        \A b \in AnimalDraws[allowed_indices(t.animals)][i] : a <= b ],
                  << "none", "none", "none" >>)

IdleHandler ==
  /\ pc = "idle"
  /\ sample = NoSample
  /\ enemy = NoTeam
  /\ adjust = NoAdjust
  /\ fight = NoFight

FreshProfile ==
  /\ zoo = EmptyZoo
  /\ owned_counts = recalculate_owned_counts(EmptyZoo)
  /\ team = [ i \in Slots |-> EmptySlot ]
  /\ equipped_foods = << NoFood, NoFood, NoFood >>
  /\ equipped_food_wins = << 0, 0, 0 >>
  /\ coins = 0
  /\ energy = 0
  /\ battles_won = 0
  /\ cooldowns = [ hunt |-> 0, battle |-> 0 ]
  /\ last_enemy_signature = NoSignature

\* a profile with a complete team, before or during the battle cooldown, with
\* no stored signature or, for the first team, the signature of a possible
\* earlier opponent
Init ==
  /\ \E k \in 1..NumTeams :
       /\ team = [ i \in Slots |-> [ animal |-> PlayerTeams[k].animals[i],
                                     mutation |-> PlayerTeams[k].mutations[i] ] ]
       /\ zoo = ZooOfTeam(PlayerTeams[k])
       /\ owned_counts = recalculate_owned_counts(ZooOfTeam(PlayerTeams[k]))
       /\ equipped_foods = PlayerTeams[k].foods
       /\ last_enemy_signature \in
            { NoSignature } \cup ( IF k = 1 THEN { FirstDrawSignature(PlayerTeams[k]) }
                                   ELSE { } )
  /\ equipped_food_wins = << 0, 0, 0 >>
  /\ coins = 0
  /\ energy = 0
  /\ battles_won = 0
  /\ now = NowStart
  /\ DAILY_COOLDOWNS = 0
  /\ pending = << >>
  /\ foods_owned = NoFoods
  /\ cooldowns \in { [ hunt |-> 0, battle |-> 0 ],
                     [ hunt |-> 0, battle |-> NowStart + BattleCooldown ] }
  /\ IdleHandler
  /\ last = [ op |-> "none" ]

Next ==
  \/ BattleStart
  \/ Sample
  \/ Choose
  \/ Adjust
  \/ AfterAdjust
  \/ Combat
  \/ Resolve

Spec == Init /\ [][Next]_vars

\* ---------------------------------------------------------------- fusion economy
\* the animal whose inventory varies: pig
FuseAnimals == { 4 }

MaxOwned == 5

\* rolls on both sides of every threshold of the fusion tables
RollSamples == { 49, 50, 74, 75, 89, 90, 94, 95 }

\* 0..MaxOwned pigs of one tier; slot 1 empty or holding an owned pig
InitFuse ==
  /\ \E tier \in MUTATIONS, c \in 0..MaxOwned :
       zoo = [ EmptyZoo EXCEPT ![4] = [ default_mutation_counts EXCEPT ![tier] = c ] ]
  /\ owned_counts = recalculate_owned_counts(zoo)
  /\ \E s1 \in { EmptySlot } \cup { [ animal |-> 4, mutation |-> m ] : m \in MUTATIONS } :
       /\ s1.animal # NoAnimal => zoo[4][s1.mutation] > 0
       /\ team = << s1, EmptySlot, EmptySlot >>
  /\ equipped_foods = << NoFood, NoFood, NoFood >>
  /\ equipped_food_wins = << 0, 0, 0 >>
  /\ coins = 0
  /\ energy = 0
  /\ battles_won = 0
  /\ cooldowns = [ hunt |-> 0, battle |-> 0 ]
  /\ last_enemy_signature = NoSignature
  /\ now = NowStart
  /\ DAILY_COOLDOWNS = 0
  /\ pending = << >>
  /\ foods_owned = NoFoods
  /\ IdleHandler
  /\ last = [ op |-> "none" ]

NextFuse ==
  \E animal \in FuseAnimals \cup { NoAnimal },
     mutation \in MUTATIONS \cup { "bogus" },
     roll \in RollSamples :
    Fuse(animal, mutation, roll)

SpecFuse == InitFuse /\ [][NextFuse]_vars

\* ---------------------------------------------------------------- pure functions
\* roll_fusion_result on every tier and every roll
InitRoll ==
  /\ FreshProfile
  /\ now = NowStart
  /\ DAILY_COOLDOWNS = 0
  /\ pending = << >>
  /\ foods_owned = NoFoods
  /\ IdleHandler
  /\ \E m \in MUTATIONS, r \in 0..99 :
       last = [ op |-> "roll_fusion_result", input_mutation |-> m, roll |-> r,
                called |-> FALSE, result |-> NoResult ]

RollFusion ==
  /\ last.op = "roll_fusion_result"
  /\ ~last.called
  /\ last' = [ last EXCEPT !.called = TRUE,
                           !.result = roll_fusion_result(last.input_mutation, last.roll) ]
  /\ UNCHANGED << profileVars, now, DAILY_COOLDOWNS, pending, foods_owned, battleVars >>

NextRoll == RollFusion

SpecRoll == InitRoll /\ [][NextRoll]_vars

\* the difficulty window of /battle on every pattern of equipped foods and
\* every assignment of mutations, for a power of 100 and of 50.4
PowerSamples == { 100 * PowerScale, 2016 }

NoWindow ==
  [ base_min |-> 0, base_max |-> 0, min_pct |-> 0, max_pct |-> 0,
    target_min |-> 0, target_max |-> 0 ]

InitWindow ==
  /\ FreshProfile
  /\ now = NowStart
  /\ DAILY_COOLDOWNS = 0
  /\ pending = << >>
  /\ foods_owned = NoFoods
  /\ IdleHandler
  /\ \E p \in PowerSamples, f \in [ Slots -> { NoFood, 1 } ], m \in [ Slots -> MUTATIONS ] :
       last = [ op |-> "window", power |-> p, foods |-> f, mutations |-> m,
                called |-> FALSE, result |-> NoWindow ]

ComputeWindow ==
  /\ last.op = "window"
  /\ ~last.called
  /\ last' = [ last EXCEPT !.called = TRUE,
                           !.result = Window(last.power, last.foods, last.mutations) ]
  /\ UNCHANGED << profileVars, now, DAILY_COOLDOWNS, pending, foods_owned, battleVars >>

NextWindow == ComputeWindow

SpecWindow == InitWindow /\ [][NextWindow]_vars

\* the outcome decision of /battle (the statements after the while loop) on
\* every pair of health maps with values 0..MaxCapHp, after MaxRounds rounds
MaxCapHp == 2

InitCap ==
  /\ team = [ i \in Slots |-> [ animal |-> PlayerTeams[1].animals[i],
                                mutation |-> PlayerTeams[1].mutations[i] ] ]
  /\ zoo = ZooOfTeam(PlayerTeams[1])
  /\ owned_counts = recalculate_owned_counts(ZooOfTeam(PlayerTeams[1]))
  /\ equipped_foods = PlayerTeams[1].foods
  /\ equipped_food_wins = << 0, 0, 0 >>
  /\ coins = 0
  /\ energy = 0
  /\ battles_won = 0
  /\ cooldowns = [ hunt |-> 0, battle |-> 0 ]
  /\ last_enemy_signature = enemy_signature(PlayerTeams[1].animals, PlayerTeams[1].mutations)
  /\ now = NowStart
  /\ DAILY_COOLDOWNS = 0
  /\ pending = << >>
  /\ foods_owned = NoFoods
  /\ pc = "resolve"
  /\ sample = NoSample
  /\ enemy = PlayerTeams[1]
  /\ adjust = NoAdjust
  /\ \E p \in [ Slots -> 0..MaxCapHp ], e \in [ Slots -> 0..MaxCapHp ] :
       fight = [ rounds |-> MaxRounds, turn |-> "none", idx |-> 0,
                 player_hp |-> p, enemy_hp |-> e ]
  /\ last = BattleReply("running")

NextCap == Resolve

SpecCap == InitCap /\ [][NextCap]_vars

\* ================================================================ properties

\* C1: the opponent team that /battle fights, after sampling and repair, has a
\* power inside [target_min, target_max] of the requester's window.
C1_FoughtOpponentInWindow ==
  pc \in { "combat", "resolve" } => InWindow(PlayerWindow, TeamPower(enemy))

\* C2: every /fuse either removes exactly 4 units of the named animal at the
\* source tier and credits the rolled output in the same step, or is refused
\* and leaves every inventory count and the global owned count unchanged; it is
\* refused when fewer than 4 units are available beyond those placed in the
\* team, and when the source tier is rainbow.
C2_FuseAtomic ==
  [][ last'.op = "fuse" =>
        LET a == last'.animal
            m == last'.mutation
            r == last'.result
            onTeam == Cardinality({ i \in Slots : team[i].animal = a /\ team[i].mutation = m })
        IN  /\ \/ /\ last'.reply = "fusion_complete"
                  /\ r = roll_fusion_result(m, last'.roll)
                  /\ r.qty >= 1
                  /\ r.mutation \in MUTATIONS
                  /\ \A b \in AnimalIds, t \in MUTATIONS :
                       zoo'[b][t] = zoo[b][t]
                                    - (IF b = a /\ t = m THEN 4 ELSE 0)
                                    + (IF b = a /\ t = r.mutation THEN r.qty ELSE 0)
                  /\ \A b \in AnimalIds :
                       owned_counts'[b] = owned_counts[b]
                                          + (IF b = a THEN r.qty - 4 ELSE 0)
               \/ /\ last'.reply # "fusion_complete"
                  /\ zoo' = zoo
                  /\ owned_counts' = owned_counts
            /\ ( \/ a = NoAnimal
                 \/ m \notin MUTATIONS
                 \/ m = "rainbow"
                 \/ zoo[a][m] - onTeam < 4 ) => last'.reply # "fusion_complete"
    ]_vars

\* a fusion went through while one unit of the source tier stayed in the team
C2_Witness ==
  /\ last.op = "fuse"
  /\ last.reply = "fusion_complete"
  /\ team[1].animal = last.animal
  /\ team[1].mutation = last.mutation

\* C3: combat stops after at most 100 rounds (every combat step moves on to a
\* later slot, pass or round, or ends the combat); when it stops without the
\* cap deciding, exactly one side has no living slot, and the win flag is true
\* if and only if that side is the opponent.
C3_CombatStops ==
  [][ LET position(f) == 6 * f.rounds + (IF f.turn = "enemy" THEN 3 ELSE 0) + f.idx
          dead(hp_map) == \A i \in Slots : hp_map[i] <= 0
      IN  /\ fight'.rounds <= 100
          /\ pc = "combat" => \/ pc' = "resolve"
                              \/ pc' = "combat" /\ position(fight') > position(fight)
          /\ ( /\ pc = "resolve"
               /\ pc' = "idle"
               /\ ~(fight.rounds >= 100 /\ ~dead(fight.player_hp) /\ ~dead(fight.enemy_hp)) ) =>
               /\ dead(fight.player_hp) # dead(fight.enemy_hp)
               /\ last'.player_win <=> dead(fight.enemy_hp)
               /\ last'.reply = IF dead(fight.enemy_hp) THEN "won" ELSE "lost"
    ]_vars

\* a battle ended by the elimination of the requester's side
C3_Witness ==
  /\ pc = "idle"
  /\ last.op = "battle"
  /\ last.reply = "lost"
  /\ fight.rounds \in 1..99
  /\ \A i \in Slots : fight.player_hp[i] = 0
  /\ \E i \in Slots : fight.enemy_hp[i] > 0

\* C4: in an attack pass the slots of the attacking side act in the order
\* slot1, slot2, slot3; a slot with health > 0 hits the first living slot of
\* the defender; the damage is max(1, attack - sum of the defense of the
\* defender's slots living at that moment); only the target's health changes,
\* floored at 0.
C4_AttackPass ==
  [][ pc = "combat" =>
        LET byPlayer == fight.turn = "player"
            att_hp   == IF byPlayer THEN fight.player_hp ELSE fight.enemy_hp
            att_st   == IF byPlayer THEN player_stats ELSE enemy_stats
            def_hp   == IF byPlayer THEN fight.enemy_hp ELSE fight.player_hp
            def_st   == IF byPlayer THEN enemy_stats ELSE player_stats
            att_new  == IF byPlayer THEN fight'.player_hp ELSE fight'.enemy_hp
            def_new  == IF byPlayer THEN fight'.enemy_hp ELSE fight'.player_hp
            living   == { i \in Slots : def_hp[i] > 0 }
            target   == CHOOSE i \in living : \A j \in living : i <= j
            shield   == (IF 1 \in living THEN def_st[1].defense ELSE 0)
                        + (IF 2 \in living THEN def_st[2].defense ELSE 0)
                        + (IF 3 \in living THEN def_st[3].defense ELSE 0)
            raw      == att_st[fight.idx].atk - shield
            dmg      == IF raw >= 1 THEN raw ELSE 1
        IN  /\ fight.idx \in Slots
            /\ att_new = att_hp
            /\ IF att_hp[fight.idx] > 0 /\ living # { }
                 THEN \A i \in Slots :
                        def_new[i] = IF i # target THEN def_hp[i]
                                     ELSE IF def_hp[i] - dmg > 0 THEN def_hp[i] - dmg
                                     ELSE 0
               ELSE def_new = def_hp
            /\ (fight'.turn = fight.turn /\ fight'.rounds = fight.rounds) =>
                 fight'.idx = fight.idx + 1
            /\ (fight.idx < 3 /\ \E i \in Slots : def_new[i] > 0) =>
                 (fight'.turn = fight.turn /\ fight'.rounds = fight.rounds)
            /\ (fight'.turn # "none" /\ ~(fight'.turn = fight.turn /\ fight'.rounds = fight.rounds)) =>
                 fight'.idx = 1
    ]_vars

\* the opponent's slot 1 has fallen and its slot 2 has been hit since
C4_Witness ==
  /\ pc = "combat"
  /\ fight.enemy_hp[1] = 0
  /\ fight.enemy_hp[2] > 0
  /\ fight.enemy_hp[2] < enemy_stats[2].hp

\* C5: in each round the requester's side attacks first; if the opponent has no
\* living slot after that pass, combat ends with no opponent attack in that
\* round; otherwise the opponent attacks back in the same round, and only its
\* slots still alive after the requester's pass act.
C5_RoundOrder ==
  [][ LET dead(hp_map) == \A i \in Slots : hp_map[i] <= 0
      IN  /\ (fight'.rounds # fight.rounds /\ fight'.rounds > 0) =>
               /\ fight'.rounds = fight.rounds + 1
               /\ fight'.turn = "player"
               /\ fight'.idx = 1
          /\ (pc = "combat" /\ fight.turn = "player") =>
               /\ fight'.player_hp = fight.player_hp
               /\ fight'.rounds = fight.rounds
               /\ fight'.turn # "player" =>
                    IF dead(fight'.enemy_hp)
                      THEN fight'.turn = "none" /\ pc' = "resolve"
                    ELSE fight'.turn = "enemy" /\ fight'.idx = 1 /\ pc' = "combat"
          /\ (pc = "combat" /\ fight.turn = "enemy") =>
               /\ fight'.enemy_hp = fight.enemy_hp
               /\ ~dead(fight.enemy_hp)
               /\ fight'.player_hp # fight.player_hp => fight.enemy_hp[fight.idx] > 0
          /\ fight'.turn = "enemy" => (pc = "combat" /\ fight.turn \in { "player", "enemy" })
    ]_vars

\* in a second or later round the opponent strikes back with a slot fallen
C5_Witness ==
  /\ pc = "combat"
  /\ fight.turn = "enemy"
  /\ fight.rounds >= 2
  /\ \E i \in Slots : fight.enemy_hp[i] = 0
  /\ \E i \in Slots : fight.player_hp[i] < player_stats[i].hp

\* C6: when round 100 completes with a living slot on both sides, the side
\* with the strictly greater sum of remaining health over its three slots is
\* the winner; with equal sums the requester is not the winner.
C6_CapDecision ==
  ( /\ pc = "idle"
    /\ last.op = "battle"
    /\ last.reply \in { "won", "lost" }
    /\ fight.rounds >= 100
    /\ \E i \in Slots : fight.player_hp[i] > 0
    /\ \E i \in Slots : fight.enemy_hp[i] > 0 ) =>
    LET mine   == fight.player_hp[1] + fight.player_hp[2] + fight.player_hp[3]
        theirs == fight.enemy_hp[1] + fight.enemy_hp[2] + fight.enemy_hp[3]
    IN  /\ last.cap_reached
        /\ last.player_win <=> mine > theirs
        /\ last.reply = IF mine > theirs THEN "won" ELSE "lost"
        /\ last.energy_gain = IF mine > theirs THEN 1 ELSE 0

\* the cap decided between equal sums spread differently over the slots
C6_Witness ==
  /\ pc = "idle"
  /\ last.op = "battle"
  /\ last.cap_reached
  /\ ~last.player_win
  /\ fight.player_hp = << 2, 0, 0 >>
  /\ fight.enemy_hp = << 0, 1, 1 >>

\* C7 as stated: after every successful fusion the owned count of the source
\* tier is exactly 4 lower than before.
C7_SourceTierFourLower ==
  [][ (last'.op = "fuse" /\ last'.reply = "fusion_complete") =>
        zoo'[last'.animal][last'.mutation] = zoo[last'.animal][last'.mutation] - 4
    ]_vars

\* C7 amended: after every successful fusion the owned count of the source
\* tier is exactly 4 lower than before, for every source tier and every roll,
\* except when emerald yields 3 emerald: then it is exactly 1 lower.
C7_SourceTierAfterFusion ==
  [][ (last'.op = "fuse" /\ last'.reply = "fusion_complete") =>
        LET a == last'.animal
            m == last'.mutation
            r == last'.result
        IN  /\ m \in { "none", "golden", "diamond", "emerald" }
            /\ IF m = "emerald" /\ last'.roll < 50
                 THEN r.mutation = m /\ r.qty = 3 /\ zoo'[a][m] = zoo[a][m] - 1
               ELSE r.mutation # m /\ zoo'[a][m] = zoo[a][m] - 4
    ]_vars

\* an emerald fusion returned three emerald units
C7_Witness ==
  /\ last.op = "fuse"
  /\ last.reply = "fusion_complete"
  /\ last.mutation = "emerald"
  /\ last.result = [ mutation |-> "emerald", qty |-> 3 ]

\* C8: roll_fusion_result follows the cumulative tables (none: <50 golden, <75
\* diamond, <95 emerald, else rainbow; golden: <50 diamond, <90 emerald, else
\* rainbow; diamond: <75 emerald, else rainbow; emerald: <50 three emerald,
\* else one rainbow); the output tier is strictly higher than the input tier
\* with quantity 1, except the emerald branch that yields 3 units of the same
\* tier; rainbow input is rejected.
C8_FusionTable ==
  (last.op = "roll_fusion_result" /\ last.called) =>
    LET tables ==
          [ none    |-> << << 50, "golden", 1 >>, << 75, "diamond", 1 >>,
                           << 95, "emerald", 1 >>, << 100, "rainbow", 1 >> >>,
            golden  |-> << << 50, "diamond", 1 >>, << 90, "emerald", 1 >>,
                           << 100, "rainbow", 1 >> >>,
            diamond |-> << << 75, "emerald", 1 >>, << 100, "rainbow", 1 >> >>,
            emerald |-> << << 50, "emerald", 3 >>, << 100, "rainbow", 1 >> >> ]
        tier(t) == CHOOSE k \in 1..5 : << "none", "golden", "diamond", "emerald", "rainbow" >>[k] = t
        m   == last.input_mutation
        out == last.result
    IN  IF m = "rainbow" THEN out = FusionError
        ELSE /\ \E k \in 1..Len(tables[m]) :
                  /\ last.roll < tables[m][k][1]
                  /\ \A j \in 1..(k - 1) : last.roll >= tables[m][j][1]
                  /\ out.mutation = tables[m][k][2]
                  /\ out.qty = tables[m][k][3]
             /\ \/ out.qty = 1 /\ tier(out.mutation) > tier(m)
                \/ m = "emerald" /\ out.qty = 3 /\ out.mutation = m

\* a roll on a threshold: 75 from none falls in the emerald band
C8_Witness ==
  /\ last.op = "roll_fusion_result"
  /\ last.called
  /\ last.input_mutation = "none"
  /\ last.roll = 75
  /\ last.result.mutation = "emerald"

\* C9: the window percentages are the table entry for (mutated slots, items)
\* with the minimum lowered and the maximum raised by 2.5 points per stage of
\* the highest mutation (0 for none and golden, 1 diamond, 2 emerald, 3
\* rainbow), both floored at 0; the bounds are the requester's power times
\* those percentages (power 100 without items and mutations: [80, 150]); the
\* lower bound never exceeds the upper bound.  Percentages are held times 2,
\* bounds times 8000.
C9_WindowTable ==
  (last.op = "window" /\ last.called) =>
    LET table == << << << 80, 150 >>, << 80, 145 >>, << 80, 140 >>, << 80, 140 >> >>,
                    << << 75, 135 >>, << 70, 135 >>, << 70, 135 >>, << 70, 135 >> >>,
                    << << 75, 135 >>, << 70, 135 >>, << 70, 135 >>, << 70, 135 >> >>,
                    << << 75, 130 >>, << 70, 130 >>, << 70, 130 >>, << 70, 130 >> >> >>
        stageOf == [ none |-> 0, golden |-> 0, diamond |-> 1, emerald |-> 2, rainbow |-> 3 ]
        mutated == Cardinality({ i \in Slots : last.mutations[i] # "none" })
        items   == Cardinality({ i \in Slots : last.foods[i] # NoFood })
        stage   == CHOOSE s \in 0..3 :
                     /\ \E i \in Slots : stageOf[last.mutations[i]] = s
                     /\ \A i \in Slots : stageOf[last.mutations[i]] <= s
        entry   == table[mutated + 1][items + 1]
        low2    == IF 2 * entry[1] - 5 * stage > 0 THEN 2 * entry[1] - 5 * stage ELSE 0
        high2   == IF 2 * entry[2] + 5 * stage > 0 THEN 2 * entry[2] + 5 * stage ELSE 0
        w       == last.result
    IN  /\ w.min_pct = low2
        /\ w.max_pct = high2
        /\ w.target_min = last.power * low2
        /\ w.target_max = last.power * high2
        /\ w.target_min <= w.target_max
        /\ (last.power = 4000 /\ mutated = 0 /\ items = 0) =>
             (w.target_min = 80 * 8000 /\ w.target_max = 150 * 8000)

\* the window of a team with one item, a golden and an emerald slot
C9_Witness ==
  /\ last.op = "window"
  /\ last.called
  /\ last.foods = << 1, NoFood, NoFood >>
  /\ last.mutations = << "golden", "none", "emerald" >>
  /\ last.result.min_pct = 130
  /\ last.result.max_pct = 280

\* C10: for every (mutated slots, items) pair the base percentage range,
\* before the widening by stage, is at most as wide as the baseline 80-150 of
\* no mutation and no item.
C10_BaseRangeWidth ==
  (last.op = "window" /\ last.called) =>
    /\ last.result.base_max - last.result.base_min <= 150 - 80
    /\ ( /\ \A i \in Slots : last.mutations[i] = "none"
         /\ \A i \in Slots : last.foods[i] = NoFood ) =>
         (last.result.base_min = 80 /\ last.result.base_max = 150)

\* the base range of three mutated slots without an item
C10_Witness ==
  /\ last.op = "window"
  /\ last.called
  /\ \A i \in Slots : last.mutations[i] # "none"
  /\ \A i \in Slots : last.foods[i] = NoFood
  /\ last.result.base_max - last.result.base_min = 55

\* ---------------------------------------------------------------- team power
\* calculate_team_power on the animals of every team of PlayerTeams, every
\* pattern of no food, apple and dragons_feast, and every assignment of tiers
PowerFoods == { NoFood, 1, 23 }

NoPowerCall ==
  [ op |-> "calculate_team_power", animals |-> << >>, foods |-> << >>,
    mutations |-> << >>, called |-> FALSE, result |-> 0 ]

InitPower ==
  /\ FreshProfile
  /\ now = NowStart
  /\ DAILY_COOLDOWNS = 0
  /\ pending = << >>
  /\ foods_owned = NoFoods
  /\ IdleHandler
  /\ \E k \in 1..Len(PlayerTeams), f \in [ Slots -> PowerFoods ], m \in [ Slots -> MUTATIONS ] :
       last = [ NoPowerCall EXCEPT !.animals = PlayerTeams[k].animals,
                                   !.foods = f, !.mutations = m ]

ComputePower ==
  /\ last.op = "calculate_team_power"
  /\ ~last.called
  /\ last' = [ last EXCEPT !.called = TRUE,
                           !.result = calculate_team_power(last.animals, last.foods,
                                                           last.mutations) ]
  /\ UNCHANGED << profileVars, now, DAILY_COOLDOWNS, pending, foods_owned, battleVars >>

NextPower == ComputePower

SpecPower == InitPower /\ [][NextPower]_vars

\* C11: team power is the sum over the slots of (hp + 1.5 atk + 1.2 def of the
\* unit, plus the same weighting of the item's bonuses, 0 without item) times
\* the tier multiplier (1, 1.25, 1.5, 2, 5); it is never negative, and raising
\* a slot's tier or adding an item never lowers it.  Powers are held times 40.
C11_TeamPower ==
  (last.op = "calculate_team_power" /\ last.called) =>
    LET times4 == [ none |-> 4, golden |-> 5, diamond |-> 6, emerald |-> 8, rainbow |-> 20 ]
        tierOf == [ none |-> 1, golden |-> 2, diamond |-> 3, emerald |-> 4, rainbow |-> 5 ]
        unit(i) == LET a == ANIMALS[last.animals[i]]
                   IN  10 * a.hp + 15 * a.atk + 12 * a.defense
        item(i) == IF last.foods[i] = NoFood THEN 0
                   ELSE LET f == FOODS[last.foods[i]]
                        IN  10 * f.hp_bonus + 15 * f.atk_bonus + 12 * f.def_bonus
        slot(i) == (unit(i) + item(i)) * times4[last.mutations[i]]
    IN  /\ last.result = slot(1) + slot(2) + slot(3)
        /\ last.result >= 0
        /\ \A i \in Slots, m \in MUTATIONS :
             tierOf[m] > tierOf[last.mutations[i]] =>
               calculate_team_power(last.animals, last.foods,
                                    [ last.mutations EXCEPT ![i] = m ]) >= last.result
        /\ \A i \in Slots, f \in FoodIds :
             last.foods[i] = NoFood =>
               calculate_team_power(last.animals, [ last.foods EXCEPT ![i] = f ],
                                    last.mutations) >= last.result

\* pig with an apple and diamond, mouse bare, bug emerald: power 77.55
C11_Witness ==
  /\ last.op = "calculate_team_power"
  /\ last.called
  /\ last.animals = << 4, 1, 9 >>
  /\ last.foods = << 1, NoFood, NoFood >>
  /\ last.mutations = << "diamond", "none", "emerald" >>
  /\ last.result = 3102

\* C12: a lost battle changes energy by 0 and coins by 0 and does not increase
\* battles_won; a won battle adds exactly 1 energy, at least 5 coins and
\* exactly 1 to battles_won.
C12_RewardOnlyOnWin ==
  [][ (pc = "resolve" /\ pc' = "idle") =>
        /\ last'.reply \in { "won", "lost" }
        /\ last'.player_win <=> last'.reply = "won"
        /\ IF last'.reply = "won"
             THEN /\ energy' = energy + 1
                  /\ coins' >= coins + 5
                  /\ battles_won' = battles_won + 1
           ELSE /\ energy' = energy
                /\ coins' = coins
                /\ battles_won' = battles_won
    ]_vars

\* a won battle of the bare team pig, mouse, bug, paid 6 coins
C12_Witness ==
  /\ pc = "idle"
  /\ last.op = "battle"
  /\ last.reply = "won"
  /\ team[1] = [ animal |-> 4, mutation |-> "none" ]
  /\ energy = 1
  /\ battles_won = 1
  /\ coins = 6

\* ---------------------------------------------------------------- reward on a win
\* requester of the reward specification: pig bare, golden mouse, emerald bug,
\* no food (power 69.8, mean rarity weight 0.6, mean slot factor 1.1458...)
RewardTeam ==
  [ animals |-> << 4, 1, 9 >>, foods |-> << 0, 0, 0 >>,
    mutations |-> << "none", "golden", "emerald" >> ]

InitReward ==
  /\ team = [ i \in Slots |-> [ animal |-> RewardTeam.animals[i],
                                mutation |-> RewardTeam.mutations[i] ] ]
  /\ zoo = ZooOfTeam(RewardTeam)
  /\ owned_counts = recalculate_owned_counts(ZooOfTeam(RewardTeam))
  /\ equipped_foods = RewardTeam.foods
  /\ last_enemy_signature = NoSignature
  /\ equipped_food_wins = << 0, 0, 0 >>
  /\ coins = 0
  /\ energy = 0
  /\ battles_won = 0
  /\ now = NowStart
  /\ DAILY_COOLDOWNS = 0
  /\ pending = << >>
  /\ foods_owned = NoFoods
  /\ cooldowns = [ hunt |-> 0, battle |-> 0 ]
  /\ IdleHandler
  /\ last = [ op |-> "none" ]

SpecReward == InitReward /\ [][Next]_vars

\* C13: on a win the coins credited are max(5, round(base * R * min(B, 1.6))),
\* where base = max(5, round(10 * opponent power / requester power)), R is the
\* mean rarity weight of the three requester units and B the mean over the
\* slots of 1 + 0.35 * (multiplier - 1) + 0.025 for an equipped food.  The
\* formula is evaluated on the exact values; at 5.5 it gives 6.
C13_CoinFormula ==
  [][ (pc = "resolve" /\ pc' = "idle" /\ last'.reply = "won") =>
        LET ratio10 == Round(10 * TeamPower(enemy), player_final_power)
            base    == IF ratio10 >= 5 THEN ratio10 ELSE 5
            \* 20 * 3 * R
            R60     == RARITY_COIN_WEIGHT[ANIMALS[team[1].animal].rarity_index + 1]
                       + RARITY_COIN_WEIGHT[ANIMALS[team[2].animal].rarity_index + 1]
                       + RARITY_COIN_WEIGHT[ANIMALS[team[3].animal].rarity_index + 1]
            \* 10000 * 3 * B
            B30000  == 30000
                       + 875 * ( (mutation_multiplier_value(team[1].mutation) - 4)
                               + (mutation_multiplier_value(team[2].mutation) - 4)
                               + (mutation_multiplier_value(team[3].mutation) - 4) )
                       + 250 * Cardinality({ i \in Slots : equipped_foods[i] # NoFood })
            capped  == IF B30000 <= 48000 THEN B30000 ELSE 48000
            amount  == Round(base * R60 * capped, 60 * 30000)
        IN  coins' - coins = IF amount >= 5 THEN amount ELSE 5 ]_vars

\* ---------------------------------------------------------------- /team, /admin remove
\* role_requirement of /team add: slot -> role
role_requirement_swapped == << "ATTACK", "TANK", "SUPPORT" >>
role_requirement == << "TANK", "ATTACK", "SUPPORT" >>

\* total_owned_species: units of the animal over all mutations
total_owned_species(z, animal) ==
  get_owned_count(z, animal, "none") + get_owned_count(z, animal, "golden")
  + get_owned_count(z, animal, "diamond") + get_owned_count(z, animal, "emerald")
  + get_owned_count(z, animal, "rainbow")

reserved_species_count(t, animal) ==
  Cardinality({ i \in Slots : t[i].animal = animal /\ t[i].mutation \in MUTATIONS })

sellable_species_amount(z, t, animal) ==
  Max2(0, total_owned_species(z, animal) - reserved_species_count(t, animal))

\* the first mutation in MUTATIONS order with a unit not reserved by the team,
\* 0 when there is none
FirstSellableMutation(z, t, animal) ==
  IF \E k \in 1..Len(MUTATION_ORDER) : sellable_amount(z, t, animal, MUTATION_ORDER[k]) > 0
    THEN CHOOSE k \in 1..Len(MUTATION_ORDER) :
           /\ sellable_amount(z, t, animal, MUTATION_ORDER[k]) > 0
           /\ \A j \in 1..(k - 1) : sellable_amount(z, t, animal, MUTATION_ORDER[j]) <= 0
  ELSE 0

\* TeamCommands.add from its inputs to the stored team and the reply; the three
\* input tests come before load_profile
team_add(animal, pos) ==
  IF pos \notin Slots THEN [ team |-> team, reply |-> "invalid_slot" ]
  ELSE IF animal = NoAnimal THEN [ team |-> team, reply |-> "unknown_animal" ]
  ELSE IF ANIMALS[animal].role # role_requirement[pos]
    THEN [ team |-> team, reply |-> "invalid_placement" ]
  ELSE
    LET loaded == migrate_team(team, zoo)
        chosen == FirstSellableMutation(zoo, loaded, animal)
    IN  IF sellable_species_amount(zoo, loaded, animal) <= 0
          THEN [ team |-> loaded, reply |-> "not_owned" ]
        ELSE IF chosen = 0 THEN [ team |-> loaded, reply |-> "fully_reserved" ]
        ELSE [ team  |-> [ loaded EXCEPT ![pos] = [ animal   |-> animal,
                                                    mutation |-> MUTATION_ORDER[chosen] ] ],
               reply |-> "team_updated" ]

TeamAdd(animal, pos) ==
  /\ pc = "idle"
  /\ team' = team_add(animal, pos).team
  /\ last' = [ op |-> "team_add", animal |-> animal, pos |-> pos,
               reply |-> team_add(animal, pos).reply ]
  /\ UNCHANGED << zoo, owned_counts, equipped_foods, equipped_food_wins, coins, energy,
                  battles_won, cooldowns, last_enemy_signature, now, DAILY_COOLDOWNS, pending, foods_owned,
                  battleVars >>

\* TeamCommands.remove: the slot is cleared in the loaded profile
TeamRemove(pos) ==
  /\ pc = "idle"
  /\ IF pos \notin Slots
       THEN /\ team' = team
            /\ last' = [ op |-> "team_remove", pos |-> pos, reply |-> "invalid_slot" ]
     ELSE /\ team' = [ migrate_team(team, zoo) EXCEPT ![pos] = EmptySlot ]
          /\ last' = [ op |-> "team_remove", pos |-> pos, reply |-> "team_updated" ]
  /\ UNCHANGED << zoo, owned_counts, equipped_foods, equipped_food_wins, coins, energy,
                  battles_won, cooldowns, last_enemy_signature, now, DAILY_COOLDOWNS, pending, foods_owned,
                  battleVars >>

\* AdminCommands.remove of type animal: units leave the zoo whether or not the
\* team holds them; the team was repaired by load_profile before the removal
AdminRemove(animal, mutation, amount) ==
  /\ pc = "idle"
  /\ amount > 0
  /\ team' = migrate_team(team, zoo)
  /\ IF get_owned_count(zoo, animal, mutation) < amount
       THEN /\ UNCHANGED << zoo, owned_counts >>
            /\ last' = [ op |-> "admin_remove", animal |-> animal, mutation |-> mutation,
                         amount |-> amount, reply |-> "not_enough" ]
     ELSE /\ zoo' = remove_animal(zoo, animal, mutation, amount)
          /\ owned_counts' = adjust_owned_count(owned_counts, animal,
                               0 - remove_animal_removed(zoo, animal, mutation, amount))
          /\ last' = [ op |-> "admin_remove", animal |-> animal, mutation |-> mutation,
                       amount |-> amount, reply |-> "removed" ]
  /\ UNCHANGED << equipped_foods, equipped_food_wins, coins, energy, battles_won,
                  cooldowns, last_enemy_signature, now, DAILY_COOLDOWNS, pending, foods_owned,
                  battleVars >>

\* the animals named in the commands: mouse (ATTACK), pig (TANK), bug (SUPPORT)
TeamAnimals == { 1, 4, 9 }

\* the zoo of the team specification: a plain and a golden pig, a mouse, a bug
TeamZoo ==
  [ EmptyZoo EXCEPT ![4] = [ default_mutation_counts EXCEPT !["none"] = 1, !["golden"] = 1 ],
                    ![1] = [ default_mutation_counts EXCEPT !["none"] = 1 ],
                    ![9] = [ default_mutation_counts EXCEPT !["none"] = 1 ] ]

\* a profile that has played: two wins behind it, the battle cooldown over, the
\* last opponent stored, the team cleared
InitTeam ==
  /\ zoo = TeamZoo
  /\ owned_counts = recalculate_owned_counts(TeamZoo)
  /\ team = [ i \in Slots |-> EmptySlot ]
  /\ equipped_foods = << NoFood, NoFood, NoFood >>
  /\ equipped_food_wins = << 0, 0, 0 >>
  /\ coins = 12
  /\ energy = 2
  /\ battles_won = 2
  /\ now = NowStart
  /\ DAILY_COOLDOWNS = 0
  /\ pending = << >>
  /\ foods_owned = NoFoods
  /\ cooldowns = [ hunt |-> 0, battle |-> NowStart - 1 ]
  /\ last_enemy_signature = FirstDrawSignature(PlayerTeams[1])
  /\ IdleHandler
  /\ last = [ op |-> "none" ]

NextTeam ==
  \/ \E animal \in TeamAnimals \cup { NoAnimal }, pos \in 0..3 : TeamAdd(animal, pos)
  \/ \E pos \in 0..3 : TeamRemove(pos)
  \/ \E animal \in TeamAnimals, mutation \in { "none", "golden" } :
       AdminRemove(animal, mutation, 1)
  \/ Next

SpecTeam == InitTeam /\ [][NextTeam]_vars

\* C14: a /battle invoked while one of the three team slots is empty is refused
\* at once: no opponent is drawn, no combat is run, and coins, energy,
\* battles_won, the battle cooldown and the last opponent signature keep their
\* values.
C14_IncompleteTeamRefused ==
  [][ ( /\ pc = "idle"
        /\ last'.op = "battle"
        /\ \E i \in Slots : team[i].animal = NoAnimal )
      => /\ pc' = "idle"
         /\ last'.reply \in { "team_incomplete", "cooldown" }
         /\ cooldowns.battle <= now => last'.reply = "team_incomplete"
         /\ sample' = sample /\ enemy' = enemy /\ adjust' = adjust /\ fight' = fight
         /\ coins' = coins
         /\ energy' = energy
         /\ battles_won' = battles_won
         /\ cooldowns'.battle = cooldowns.battle
         /\ last_enemy_signature' = last_enemy_signature ]_vars

\* a refusal with two slots populated, the profile still as it was
C14_Witness ==
  /\ pc = "idle"
  /\ last = BattleReply("team_incomplete")
  /\ team[1].animal = 4 /\ team[2].animal = 1 /\ team[3].animal = NoAnimal
  /\ coins = 12 /\ energy = 2 /\ battles_won = 2
  /\ cooldowns.battle < now
  /\ last_enemy_signature # NoSignature

\* C15: whatever /team add, /team remove and the repair of load_profile have
\* done, a populated slot holds a unit of the slot's role (slot 1 TANK, slot 2
\* ATTACK, slot 3 SUPPORT); a /team add naming a unit of another role is
\* refused and the team stays as it was.
C15_SlotRoles ==
  /\ [] ( \A i \in Slots :
            team[i].animal # NoAnimal =>
              ANIMALS[team[i].animal].role = << "TANK", "ATTACK", "SUPPORT" >>[i] )
  /\ [][ ( /\ last'.op = "team_add"
           /\ last'.pos \in Slots
           /\ last'.animal # NoAnimal
           /\ ANIMALS[last'.animal].role # << "TANK", "ATTACK", "SUPPORT" >>[last'.pos] )
         => /\ last'.reply = "invalid_placement"
            /\ team' = team ]_vars

\* the golden pig reached slot 1 through the repair (the plain pig placed there
\* was removed from the zoo), and a mouse was then refused for slot 3
C15_Witness ==
  /\ last.op = "team_add" /\ last.animal = 1 /\ last.pos = 3
  /\ last.reply = "invalid_placement"
  /\ team[1] = [ animal |-> 4, mutation |-> "golden" ]
  /\ zoo[4]["none"] = 0
  /\ team[2].animal = 1

\* C16: when the draws and both repair calls are used up and the opponent's
\* power is still outside the window, /battle ends with a reported failure:
\* no combat, no reward, no cooldown, no stored signature.
C16_ExhaustionReported ==
  ( /\ pc = "idle"
    /\ last.op = "battle"
    /\ enemy # NoTeam
    /\ ~InWindow(PlayerWindow, TeamPower(enemy)) )
  => /\ last.reply = "battle_failed"
     /\ fight = NoFight
     /\ coins = 0 /\ energy = 0 /\ battles_won = 0
     /\ cooldowns.battle # now + BattleCooldown
     /\ last_enemy_signature \in { NoSignature, FirstDrawSignature(PlayerTeams[1]) }

\* C17: every draw of the synthesizer filtered by role and rarity (the allowed
\* tiers in the sampling and in the first repair loop, the single weakest or
\* strongest allowed tier in the final pass) has a candidate, so no /battle
\* ends on a failed draw.
C17_NoDrawFails ==
  ~(pc = "idle" /\ last.op = "battle" /\ last.reply = "battle_failed")

\* C18: one /battle makes at most 300 draws, at most 350 first-pass and 200
\* final-pass repair iterations on the chosen candidate, and at most 100 combat
\* rounds.  A second call of the repair is entered only after the first one
\* has used all of its 350 + 200 iterations.
C18_BoundedBattle ==
  LET firstPass == (IF adjust.call = 2 THEN 350 ELSE 0)
                   + (IF adjust.loop = 1 THEN adjust.iter
                      ELSE IF adjust.loop = 2 THEN 350 ELSE 0)
      finalPass == (IF adjust.call = 2 THEN 200 ELSE 0)
                   + (IF adjust.loop = 2 THEN adjust.iter ELSE 0)
  IN  /\ sample.attempt <= 300
      /\ firstPass <= 350
      /\ finalPass <= 200
      /\ fight.rounds <= 100

\* ---------------------------------------------------------------- draws of the repair
\* requester of the draw specification: pig, mouse, octopus, all rainbow, each
\* with the strongest food; mean rarity index round(5 / 3) = 2, allowed
\* rarities uncommon, rare, epic
DrawTeam ==
  [ animals |-> << 4, 1, 37 >>, foods |-> << 23, 23, 23 >>,
    mutations |-> << "rainbow", "rainbow", "rainbow" >> ]

InitDraw ==
  /\ team = [ i \in Slots |-> [ animal |-> DrawTeam.animals[i],
                                mutation |-> DrawTeam.mutations[i] ] ]
  /\ zoo = ZooOfTeam(DrawTeam)
  /\ owned_counts = recalculate_owned_counts(ZooOfTeam(DrawTeam))
  /\ equipped_foods = DrawTeam.foods
  /\ last_enemy_signature = NoSignature
  /\ equipped_food_wins = << 0, 0, 0 >>
  /\ coins = 0
  /\ energy = 0
  /\ battles_won = 0
  /\ now = NowStart
  /\ DAILY_COOLDOWNS = 0
  /\ pending = << >>
  /\ foods_owned = NoFoods
  /\ cooldowns = [ hunt |-> 0, battle |-> 0 ]
  /\ IdleHandler
  /\ last = [ op |-> "none" ]

SpecDraw == InitDraw /\ [][Next]_vars

\* ---------------------------------------------------------------- /sell
\* RARITY_SELL_VALUE by rarity index
RARITY_SELL_VALUE == << 1, 3, 8, 20, 60, 120, 250 >>

\* allocate_sale: the (mutation, portion) pairs in MUTATIONS order, from tier k on
RECURSIVE allocate_from(_, _, _, _, _)
allocate_from(z, t, animal, k, remaining) ==
  IF remaining <= 0 \/ k > Len(MUTATION_ORDER) THEN << >>
  ELSE LET available == sellable_amount(z, t, animal, MUTATION_ORDER[k])
           portion   == Min2(available, remaining)
       IN  IF available <= 0 THEN allocate_from(z, t, animal, k + 1, remaining)
           ELSE << [ animal |-> animal, mutation |-> MUTATION_ORDER[k], qty |-> portion ] >>
                \o allocate_from(z, t, animal, k + 1, remaining - portion)

RECURSIVE PlanQty(_)
PlanQty(plan) == IF plan = << >> THEN 0 ELSE Head(plan).qty + PlanQty(Tail(plan))

allocate_sale(z, t, animal, qty) == allocate_from(z, t, animal, 1, qty)

\* allocate_sale raises RuntimeError when the tiers do not cover the quantity
allocate_sale_raises(z, t, animal, qty) == PlanQty(allocate_sale(z, t, animal, qty)) < qty

\* the plan of a sale by rarity: every animal of the rarity in catalog order
RECURSIVE rarity_plan(_, _, _, _, _)
rarity_plan(z, t, rarity_index, amount, a) ==
  IF a > Len(ANIMALS) THEN << >>
  ELSE IF ANIMALS[a].rarity_index # rarity_index
    THEN rarity_plan(z, t, rarity_index, amount, a + 1)
  ELSE LET available_total == sellable_species_amount(z, t, a)
           qty == IF amount.all THEN available_total ELSE Min2(available_total, amount.count)
       IN  ( IF available_total > 0 /\ qty > 0 THEN allocate_sale(z, t, a, qty) ELSE << >> )
           \o rarity_plan(z, t, rarity_index, amount, a + 1)

\* finalize_sale: the plan applied to the profile as it is now; coins times 4
RECURSIVE finalize_from(_, _)
finalize_from(plan, acc) ==
  IF plan = << >> THEN acc
  ELSE LET e       == Head(plan)
           removed == remove_animal_removed(acc.zoo, e.animal, e.mutation, e.qty)
       IN  finalize_from(Tail(plan),
             IF removed <= 0 THEN acc
             ELSE [ zoo          |-> remove_animal(acc.zoo, e.animal, e.mutation, e.qty),
                    owned_counts |-> adjust_owned_count(acc.owned_counts, e.animal, 0 - removed),
                    total_coins  |-> acc.total_coins
                                     + removed * RARITY_SELL_VALUE[ANIMALS[e.animal].rarity_index + 1]
                                       * mutation_multiplier_value(e.mutation),
                    total_sold   |-> acc.total_sold + removed ])

finalize_sale(plan) ==
  finalize_from(plan, [ zoo |-> zoo, owned_counts |-> owned_counts,
                        total_coins |-> 0, total_sold |-> 0 ])

\* the handler up to its plan: the reply of a refusal, or the plan and whether
\* the confirmation view is shown
sell_plan(mode, target, amount, mutation, t) ==
  LET refuse(reply) == [ reply |-> reply, plan |-> << >>, needs_confirm |-> FALSE ]
  IN
  IF mode = "animal" THEN
    IF target = NoAnimal THEN refuse("unknown_animal")
    ELSE IF total_owned_species(zoo, target) <= 0 THEN refuse("not_owned")
    ELSE IF mutation # "any" THEN
      IF mutation \notin MUTATIONS THEN refuse("invalid_mutation")
      ELSE IF get_owned_count(zoo, target, mutation) <= 0 THEN refuse("tier_not_owned")
      ELSE LET sell_amount == IF amount.all THEN get_owned_count(zoo, target, mutation)
                              ELSE amount.count
           IN  IF sell_amount > sellable_amount(zoo, t, target, mutation)
                 THEN refuse("cannot_sell")
               ELSE [ reply |-> "plan",
                      plan |-> << [ animal |-> target, mutation |-> mutation,
                                    qty |-> sell_amount ] >>,
                      needs_confirm |-> ANIMALS[target].rarity_index >= 3 ]
    ELSE LET sell_amount == IF amount.all THEN total_owned_species(zoo, target)
                            ELSE amount.count
         IN  IF sell_amount > sellable_species_amount(zoo, t, target)
               THEN refuse("cannot_sell")
             ELSE IF allocate_sale_raises(zoo, t, target, sell_amount)
               THEN refuse("RuntimeError")
             ELSE [ reply |-> "plan", plan |-> allocate_sale(zoo, t, target, sell_amount),
                    needs_confirm |-> ANIMALS[target].rarity_index >= 3 ]
  ELSE
    IF target \notin 0..6 THEN refuse("invalid_rarity")
    ELSE LET plan == rarity_plan(zoo, t, target, amount, 1)
         IN  IF plan = << >> THEN refuse("nothing_available")
             ELSE [ reply |-> "plan", plan |-> plan, needs_confirm |-> TRUE ]

SaleReply(reply, plan, sold, gain) ==
  [ op |-> "sell", reply |-> reply, plan |-> plan, total_sold |-> sold, total_coins |-> gain ]

\* the units leave the zoo and the coins are credited: finalize_sale and its reply
Finalize(plan) ==
  LET out == finalize_sale(plan)
  IN  /\ zoo' = out.zoo
      /\ owned_counts' = out.owned_counts
      /\ coins' = coins + Round(out.total_coins, 4)
      /\ last' = SaleReply("sold", plan, out.total_sold, Round(out.total_coins, 4))

MaxPending == 2

\* /sell from the command to the sale, or to the confirmation view
SellStart(mode, target, amount, mutation) ==
  /\ pc = "idle"
  /\ IF ~amount.all /\ amount.count <= 0
       THEN /\ last' = SaleReply("invalid_amount", << >>, 0, 0)
            /\ UNCHANGED << zoo, owned_counts, team, coins, pending >>
     ELSE LET loaded == migrate_team(team, zoo)
              p      == sell_plan(mode, target, amount, mutation, loaded)
          IN  /\ team' = loaded
              /\ IF p.reply # "plan"
                   THEN /\ last' = SaleReply(p.reply, << >>, 0, 0)
                        /\ UNCHANGED << zoo, owned_counts, coins, pending >>
                 ELSE IF p.needs_confirm
                   THEN /\ Len(pending) < MaxPending
                        /\ pending' = Append(pending, p.plan)
                        /\ last' = SaleReply("confirm", p.plan, 0, 0)
                        /\ UNCHANGED << zoo, owned_counts, coins >>
                 ELSE /\ Finalize(p.plan)
                      /\ UNCHANGED pending
  /\ UNCHANGED << equipped_foods, equipped_food_wins, energy, battles_won, cooldowns,
                  last_enemy_signature, now, DAILY_COOLDOWNS, foods_owned, battleVars >>

Without(s, k) == [ j \in 1..(Len(s) - 1) |-> IF j < k THEN s[j] ELSE s[j + 1] ]

\* the Yes button: view.wait() returns and the plan made before the wait is sold
SellConfirm(k) ==
  /\ k \in 1..Len(pending)
  /\ Finalize(pending[k])
  /\ pending' = Without(pending, k)
  /\ UNCHANGED << team, equipped_foods, equipped_food_wins, energy, battles_won, cooldowns,
                  last_enemy_signature, now, DAILY_COOLDOWNS, foods_owned, battleVars >>

\* the Cancel button, or the 15 seconds of the view running out
SellCancel(k) ==
  /\ k \in 1..Len(pending)
  /\ pending' = Without(pending, k)
  /\ last' = SaleReply("cancelled", pending[k], 0, 0)
  /\ UNCHANGED << profileVars, now, DAILY_COOLDOWNS, foods_owned, battleVars >>

\* ---------------------------------------------------------------- sale specification
\* the amounts typed: all, 0 (refused), 1, 2
SellAmounts ==
  { [ all |-> TRUE, count |-> 0 ] } \cup { [ all |-> FALSE, count |-> n ] : n \in 0..2 }

\* the rolls of the interleaved /fuse: a golden and a rainbow result
SellRolls == { 49, 95 }

\* MaxOwned plain pigs, the team empty, no sale waiting
InitSell ==
  /\ zoo = [ EmptyZoo EXCEPT ![4] = [ default_mutation_counts EXCEPT !["none"] = MaxOwned ] ]
  /\ owned_counts = recalculate_owned_counts(zoo)
  /\ team = [ i \in Slots |-> EmptySlot ]
  /\ equipped_foods = << NoFood, NoFood, NoFood >>
  /\ equipped_food_wins = << 0, 0, 0 >>
  /\ coins = 0
  /\ energy = 0
  /\ battles_won = 0
  /\ cooldowns = [ hunt |-> 0, battle |-> 0 ]
  /\ last_enemy_signature = NoSignature
  /\ now = NowStart
  /\ DAILY_COOLDOWNS = 0
  /\ pending = << >>
  /\ foods_owned = NoFoods
  /\ IdleHandler
  /\ last = [ op |-> "none" ]

NextSell ==
  \/ \E amount \in SellAmounts, mutation \in { "any", "none" } :
       SellStart("animal", 4, amount, mutation)
  \/ \E amount \in SellAmounts : SellStart("rarity", 0, amount, "any")
  \/ \E k \in 1..MaxPending : SellConfirm(k)
  \/ \E k \in 1..MaxPending : SellCancel(k)
  \/ TeamAdd(4, 1)
  \/ \E roll \in SellRolls : Fuse(4, "none", roll)

SpecSell == InitSell /\ [][NextSell]_vars

\* C19: however a /sell, with the wait for its confirmation button, is
\* interleaved with /team add, /fuse and other /sell commands of the same
\* user, a completed sale never takes the owned count of an animal at a
\* mutation tier below the number of team slots holding it, and the coins it
\* credits are the value of the units it removed.
C19_SaleKeepsReserved ==
  [][ (last'.op = "sell" /\ last'.reply = "sold") =>
        LET sold == { p \in AnimalIds \X MUTATIONS : zoo'[p[1]][p[2]] < zoo[p[1]][p[2]] }
            RECURSIVE Value4(_)
            Value4(S) ==
              IF S = {} THEN 0
              ELSE LET p == CHOOSE q \in S : TRUE
                   IN  (zoo[p[1]][p[2]] - zoo'[p[1]][p[2]])
                       * RARITY_SELL_VALUE[ANIMALS[p[1]].rarity_index + 1]
                       * mutation_multiplier_value(p[2])
                       + Value4(S \ { p })
        IN  /\ \A p \in sold : zoo'[p[1]][p[2]] >= reserved_count(team', p[1], p[2])
            /\ \A p \in (AnimalIds \X MUTATIONS) \ sold : zoo'[p[1]][p[2]] = zoo[p[1]][p[2]]
            /\ coins' - coins = Round(Value4(sold), 4) ]_vars

\* C20: the coins credited for selling a food are its sale value (half its
\* cost per unit) less 1% for every battle won with that food, and at least
\* 50% of that value.  Slot 1 is the only slot that holds a food: the apple
\* from the start, the carrot once /use has replaced it.  The wins with the
\* food sold are therefore the wins of the profile that were not won with the
\* food now in slot 1.
C20_FoodDepreciation ==
  [][ (last'.op = "sell_food" /\ last'.reply = "sold") =>
        LET wins   == battles_won - equipped_food_wins[1]
            full   == FOODS[last'.food].cost * last'.sell_amount
            factor == IF 100 - wins >= 50 THEN 100 - wins ELSE 50
        IN  /\ coins' - coins = (factor * full) \div 200
            /\ 2 * (coins' - coins) >= full \div 2 ]_vars

\* ---------------------------------------------------------------- /use, /sell food
\* use_food: the food leaves the inventory for the slot, the food that was in
\* the slot is destroyed and the slot's win count starts again at 0
UseFood(food, pos) ==
  /\ pc = "idle"
  /\ IF pos \notin Slots
       THEN /\ last' = [ op |-> "use", food |-> food, pos |-> pos, reply |-> "invalid_slot" ]
            /\ UNCHANGED << team, equipped_foods, equipped_food_wins, foods_owned >>
     ELSE IF food = NoFood
       THEN /\ last' = [ op |-> "use", food |-> food, pos |-> pos, reply |-> "unknown_food" ]
            /\ UNCHANGED << team, equipped_foods, equipped_food_wins, foods_owned >>
     ELSE /\ team' = migrate_team(team, zoo)
          /\ IF foods_owned[food] <= 0
               THEN /\ last' = [ op |-> "use", food |-> food, pos |-> pos,
                                 reply |-> "not_owned" ]
                    /\ UNCHANGED << equipped_foods, equipped_food_wins, foods_owned >>
             ELSE /\ equipped_foods' = [ equipped_foods EXCEPT ![pos] = food ]
                  /\ equipped_food_wins' = [ equipped_food_wins EXCEPT ![pos] = 0 ]
                  /\ foods_owned' = [ foods_owned EXCEPT ![food] = Max2(0, @ - 1) ]
                  /\ last' = [ op |-> "use", food |-> food, pos |-> pos,
                               reply |-> "equipped" ]
  /\ UNCHANGED << zoo, owned_counts, coins, energy, battles_won, cooldowns,
                  last_enemy_signature, now, DAILY_COOLDOWNS, pending, battleVars >>

\* int(max(0.5, depreciation) * cost * sell_amount * 0.5) with depreciation = 1.0
\* and wins_used = 0, as the handler sets them
food_final_value(food, sell_amount) ==
  LET depreciation == 100
  IN  (Max2(50, depreciation) * FOODS[food].cost * sell_amount) \div 200

FoodReply(food, amount, reply, sell_amount, final_value) ==
  [ op |-> "sell_food", food |-> food, amount |-> amount, reply |-> reply,
    sell_amount |-> sell_amount, final_value |-> final_value ]

\* mutant: a food equipped in a slot is sold like any other
SellFood_sellsEquipped(food, amount) ==
  /\ pc = "idle"
  /\ IF ~amount.all /\ amount.count <= 0
       THEN /\ last' = FoodReply(food, amount, "invalid_amount", 0, 0)
            /\ UNCHANGED << team, foods_owned, coins >>
     ELSE /\ team' = migrate_team(team, zoo)
          /\ LET owned       == foods_owned[food]
                 sell_amount == IF amount.all THEN owned ELSE amount.count
             IN  IF food = NoFood
                   THEN /\ last' = FoodReply(food, amount, "unknown_food", 0, 0)
                        /\ UNCHANGED << foods_owned, coins >>
                 ELSE IF owned <= 0
                   THEN /\ last' = FoodReply(food, amount, "not_owned", 0, 0)
                        /\ UNCHANGED << foods_owned, coins >>
                 ELSE IF sell_amount > owned
                   THEN /\ last' = FoodReply(food, amount, "cannot_sell", 0, 0)
                        /\ UNCHANGED << foods_owned, coins >>
                 ELSE /\ foods_owned' = [ foods_owned EXCEPT ![food] = Max2(0, owned - sell_amount) ]
                      /\ coins' = coins + food_final_value(food, sell_amount)
                      /\ last' = FoodReply(food, amount, "sold", sell_amount,
                                           food_final_value(food, sell_amount))
  /\ UNCHANGED << zoo, owned_counts, equipped_foods, equipped_food_wins, energy, battles_won,
                  cooldowns, last_enemy_signature, now, DAILY_COOLDOWNS, pending, battleVars >>
\* /sell with mode food
SellFood(food, amount) ==
  /\ pc = "idle"
  /\ IF ~amount.all /\ amount.count <= 0
       THEN /\ last' = FoodReply(food, amount, "invalid_amount", 0, 0)
            /\ UNCHANGED << team, foods_owned, coins >>
     ELSE /\ team' = migrate_team(team, zoo)
          /\ LET owned       == foods_owned[food]
                 sell_amount == IF amount.all THEN owned ELSE amount.count
             IN  IF food = NoFood
                   THEN /\ last' = FoodReply(food, amount, "unknown_food", 0, 0)
                        /\ UNCHANGED << foods_owned, coins >>
                 ELSE IF \E i \in Slots : equipped_foods[i] = food
                   THEN /\ last' = FoodReply(food, amount, "equipped", 0, 0)
                        /\ UNCHANGED << foods_owned, coins >>
                 ELSE IF owned <= 0
                   THEN /\ last' = FoodReply(food, amount, "not_owned", 0, 0)
                        /\ UNCHANGED << foods_owned, coins >>
                 ELSE IF sell_amount > owned
                   THEN /\ last' = FoodReply(food, amount, "cannot_sell", 0, 0)
                        /\ UNCHANGED << foods_owned, coins >>
                 ELSE /\ foods_owned' = [ foods_owned EXCEPT ![food] = Max2(0, owned - sell_amount) ]
                      /\ coins' = coins + food_final_value(food, sell_amount)
                      /\ last' = FoodReply(food, amount, "sold", sell_amount,
                                           food_final_value(food, sell_amount))
  /\ UNCHANGED << zoo, owned_counts, equipped_foods, equipped_food_wins, energy, battles_won,
                  cooldowns, last_enemy_signature, now, DAILY_COOLDOWNS, pending, battleVars >>

\* the foods named in /sell: apple and carrot
FoodTargets == { 1, 2 }

\* the food named in /use: carrot
UseTargets == { 2 }

\* pig, mouse, bug with an apple in slot 1; one more apple and a carrot in the
\* inventory; no battle fought yet
InitFood ==
  /\ team = [ i \in Slots |-> [ animal |-> PlayerTeams[1].animals[i], mutation |-> "none" ] ]
  /\ zoo = ZooOfTeam(PlayerTeams[1])
  /\ owned_counts = recalculate_owned_counts(ZooOfTeam(PlayerTeams[1]))
  /\ equipped_foods = << 1, NoFood, NoFood >>
  /\ equipped_food_wins = << 0, 0, 0 >>
  /\ foods_owned = [ NoFoods EXCEPT ![1] = 1, ![2] = 1 ]
  /\ coins = 0
  /\ energy = 0
  /\ battles_won = 0
  /\ cooldowns = [ hunt |-> 0, battle |-> 0 ]
  /\ last_enemy_signature = NoSignature
  /\ now = NowStart
  /\ DAILY_COOLDOWNS = 0
  /\ pending = << >>
  /\ IdleHandler
  /\ last = [ op |-> "none" ]

NextFood ==
  \/ \E food \in UseTargets \cup { NoFood }, pos \in 0..1 : UseFood(food, pos)
  \/ \E food \in FoodTargets \cup { NoFood }, amount \in SellAmounts : SellFood(food, amount)
  \/ Next

SpecFood == InitFood /\ [][NextFood]_vars

\* C21: a /sell of a food whose id is equipped in a team slot is refused, and
\* so is a food sale for more units than the inventory holds; either refusal
\* leaves coins, the food inventory and every other field of the profile as
\* they were.
C21_FoodSaleRefused ==
  [][ ( /\ last'.op = "sell_food"
        /\ last'.food # NoFood
        /\ \/ \E i \in Slots : equipped_foods[i] = last'.food
           \/ (~last'.amount.all /\ last'.amount.count > foods_owned[last'.food]) )
      => /\ last'.reply # "sold"
         /\ coins' = coins
         /\ foods_owned' = foods_owned
         /\ equipped_foods' = equipped_foods
         /\ equipped_food_wins' = equipped_food_wins
         /\ zoo' = zoo /\ owned_counts' = owned_counts
         /\ energy' = energy /\ battles_won' = battles_won
         /\ cooldowns' = cooldowns
         /\ last_enemy_signature' = last_enemy_signature ]_vars

\* the refused sale of the apple that is equipped in slot 1 while another apple
\* lies in the inventory
C21_Witness ==
  /\ last.op = "sell_food"
  /\ last.food = 1
  /\ last.reply = "equipped"
  /\ equipped_foods[1] = 1
  /\ foods_owned[1] = 1
  /\ coins = 0

\* the refused sale of two carrots where one is owned and none is equipped
C21_WitnessOversell ==
  /\ last.op = "sell_food"
  /\ last.food = 2
  /\ last.amount = [ all |-> FALSE, count |-> 2 ]
  /\ last.reply = "cannot_sell"
  /\ foods_owned[2] = 1
  /\ \A i \in Slots : equipped_foods[i] # 2

\* ---------------------------------------------------------------- combat, every mutation
\* the two sides of the combat specification: trex, dragon, unicorn with an
\* apple on the trex against goat, fish, ant with a carrot on the fish
TierPlayer == [ animals |-> << 40, 39, 41 >>, foods |-> << 1, 0, 0 >> ]

TierEnemy == [ animals |-> << 8, 3, 10 >>, foods |-> << 0, 2, 0 >> ]

\* the statements of /battle after the repair calls (stats, combat, outcome,
\* reward) on every assignment of mutation tiers to the six slots
InitTiers ==
  /\ \E pm \in [ Slots -> MUTATIONS ], em \in [ Slots -> MUTATIONS ] :
       /\ team = [ i \in Slots |-> [ animal |-> TierPlayer.animals[i], mutation |-> pm[i] ] ]
       /\ zoo = ZooOfTeam([ animals |-> TierPlayer.animals, mutations |-> pm ])
       /\ enemy = [ animals |-> TierEnemy.animals, foods |-> TierEnemy.foods,
                    mutations |-> [ i \in Slots |-> em[i] ] ]
  /\ owned_counts = recalculate_owned_counts(zoo)
  /\ equipped_foods = TierPlayer.foods
  /\ equipped_food_wins = << 0, 0, 0 >>
  /\ coins = 0
  /\ energy = 0
  /\ battles_won = 0
  /\ cooldowns = [ hunt |-> 0, battle |-> 0 ]
  /\ last_enemy_signature = enemy_signature(enemy.animals, enemy.mutations)
  /\ now = NowStart
  /\ DAILY_COOLDOWNS = 0
  /\ pending = << >>
  /\ foods_owned = NoFoods
  /\ pc = "adjusted"
  /\ sample = NoSample
  /\ adjust = [ call |-> 2, loop |-> 1, iter |-> 0 ]
  /\ fight = NoFight
  /\ last = BattleReply("running")

NextTiers ==
  \/ AfterAdjust
  \/ Combat
  \/ Resolve

SpecTiers == InitTiers /\ [][NextTiers]_vars

\* the combat of the two sides computed from their units and items alone: every
\* position it passes through, and the position it ends in
TierPlayerStats == [ i \in Slots |-> apply_food(TierPlayer.animals[i], TierPlayer.foods[i]) ]

TierEnemyStats == [ i \in Slots |-> apply_food(TierEnemy.animals[i], TierEnemy.foods[i]) ]

RECURSIVE CombatTrace(_)
CombatTrace(f) ==
  IF f.turn = "none" THEN { f }
  ELSE { f } \cup CombatTrace(combat_step(f, TierPlayerStats, TierEnemyStats))

TierTrace ==
  CombatTrace(start_fight(
    << TierPlayerStats[1].hp, TierPlayerStats[2].hp, TierPlayerStats[3].hp >>,
    << TierEnemyStats[1].hp, TierEnemyStats[2].hp, TierEnemyStats[3].hp >>))

TierFinal == CHOOSE f \in TierTrace : f.turn = "none"

\* C22: with the units and items of both sides fixed, the health of every slot
\* after every attack, the round count and the win flag are the same for every
\* assignment of mutation tiers to the six slots: they are the values of one
\* combat computed from the units and the items alone.
C22_CombatIgnoresMutation ==
  /\ pc \in { "combat", "resolve" } => fight \in TierTrace
  /\ pc = "resolve" => fight = TierFinal
  /\ (pc = "idle" /\ last.op = "battle" /\ last.reply \in { "won", "lost" })
       => /\ fight = TierFinal
          /\ last.player_win = player_win(TierFinal)

\* a finished combat of several rounds between two sides with mixed tiers
C22_Witness ==
  /\ pc = "idle"
  /\ last.op = "battle"
  /\ last.reply \in { "won", "lost" }
  /\ fight.rounds >= 3
  /\ player_mutations = << "rainbow", "none", "diamond" >>
  /\ enemy.mutations = << "golden", "emerald", "rainbow" >>

\* C23: after a battle that was fought, the last opponent signature stored in
\* the profile is the signature (unit id and mutation of slot 1, 2, 3) of the
\* opponent team that was fought.
C23_StoredSignatureIsFought ==
  (pc = "idle" /\ last.op = "battle" /\ last.reply \in { "won", "lost" })
    => last_enemy_signature = enemy_signature(enemy.animals, enemy.mutations)

\* C24: when phase A leaves its loop before the last draw, the candidate it
\* selects is inside the window and its signature is not the requester's last
\* opponent signature; and from the selection on, an opponent whose power is
\* inside the window is changed by no step of the battle: adjust_enemy_team
\* returns at its first test with every unit, item and mutation as selected,
\* and that team is the one fought.
C24_InWindowCandidateKept ==
  [][ /\ (pc = "chosen" /\ pc' = "adjust" /\ sample.attempt < MaxAttempts)
           => /\ InWindow(PlayerWindow, TeamPower(enemy'))
              /\ enemy_signature(enemy'.animals, enemy'.mutations) # last_enemy_signature
      /\ ( /\ pc \in { "adjust", "adjusted", "combat", "resolve" }
           /\ InWindow(PlayerWindow, TeamPower(enemy)) )
           => /\ enemy' = enemy
              /\ pc = "adjust" => (pc' = "adjusted" /\ adjust' = adjust)
              /\ pc = "adjusted" => pc' \in { "combat", "resolve" } ]_vars

\* the first repair call has returned at its first test on a candidate that
\* carries a food and a signature other than the stored one
C24_Witness ==
  /\ pc = "adjusted"
  /\ adjust = [ call |-> 1, loop |-> 1, iter |-> 0 ]
  /\ InWindow(PlayerWindow, TeamPower(enemy))
  /\ FoodCount(enemy.foods) = 1
  /\ last_enemy_signature # enemy_signature(enemy.animals, enemy.mutations)

\* the same after 300 draws, none of them accepted at once: the candidate
\* selected is inside the window and has the stored signature
C24_WitnessFallback ==
  /\ pc = "adjusted"
  /\ adjust = [ call |-> 1, loop |-> 1, iter |-> 0 ]
  /\ InWindow(PlayerWindow, TeamPower(enemy))
  /\ last_enemy_signature = enemy_signature(enemy.animals, enemy.mutations)

\* ---------------------------------------------------------------- time, /hunt
\* the instants at which the clock is read: around the hunt cooldown and
\* around the end of the daily cooldown
HuntCooldown == 10

DailyCooldown == 24 * 3600

Instants ==
  { NowStart + d : d \in { 0, HuntCooldown - 1, HuntCooldown, 2 * HuntCooldown,
                           DailyCooldown - 1, DailyCooldown, DailyCooldown + HuntCooldown } }

\* time passes between two commands
Tick ==
  /\ pc = "idle"
  /\ \E t \in Instants : t > now /\ now' = t
  /\ UNCHANGED << profileVars, pending, foods_owned, DAILY_COOLDOWNS, battleVars, last >>

\* compute_level: 1, and one more for every power of two the wins have reached
RECURSIVE LevelFrom(_, _, _)
LevelFrom(wins, level, threshold) ==
  IF wins >= threshold THEN LevelFrom(wins, level + 1, threshold * 2) ELSE level

compute_level(wins) == LevelFrom(Max2(0, wins), 1, 1)

\* outcomes of one roll (pick_rarity, random.choice(pool), roll_mutation) that
\* the model explores: a plain pig, a golden pig, a plain mouse
HuntPicks == { << 4, "none" >>, << 4, "golden" >>, << 1, "none" >> }

\* the for loop of hunt from roll k on: the zoo and the global owned counts
RECURSIVE HuntLoop(_, _, _, _)
HuntLoop(z, oc, picks, k) ==
  IF k > Len(picks) THEN [ zoo |-> z, owned_counts |-> oc ]
  ELSE HuntLoop(add_animal(z, picks[k][1], picks[k][2], 1),
                adjust_owned_count(oc, picks[k][1], 1), picks, k + 1)

HuntReply(reply, rolls) == [ op |-> "hunt", reply |-> reply, rolls |-> rolls ]

\* mutant: the price and the energy of level rolls are taken, whatever the
\* number of rolls made
Hunt_chargesLevel ==
  /\ pc = "idle"
  /\ team' = migrate_team(team, zoo)
  /\ LET level == compute_level(battles_won)
         rolls == IF coins \div 5 < level THEN coins \div 5 ELSE level
     IN  IF cooldowns.hunt > now
           THEN /\ last' = HuntReply("cooldown", 0)
                /\ UNCHANGED << zoo, owned_counts, coins, energy, cooldowns >>
         ELSE IF rolls <= 0
           THEN /\ last' = HuntReply("not_enough_coins", 0)
                /\ UNCHANGED << zoo, owned_counts, coins, energy, cooldowns >>
         ELSE IF energy < rolls
           THEN /\ last' = HuntReply("not_enough_energy", 0)
                /\ UNCHANGED << zoo, owned_counts, coins, energy, cooldowns >>
         ELSE \E picks \in [ 1..rolls -> HuntPicks ] :
                /\ coins' = coins - level * 5
                /\ energy' = energy - level
                /\ zoo' = HuntLoop(zoo, owned_counts, picks, 1).zoo
                /\ owned_counts' = HuntLoop(zoo, owned_counts, picks, 1).owned_counts
                /\ cooldowns' = [ cooldowns EXCEPT !.hunt = now + HuntCooldown ]
                /\ last' = HuntReply("hunted", rolls)
  /\ UNCHANGED << equipped_foods, equipped_food_wins, battles_won, last_enemy_signature,
                  now, DAILY_COOLDOWNS, pending, foods_owned, battleVars >>
\* /hunt
Hunt ==
  /\ pc = "idle"
  /\ team' = migrate_team(team, zoo)
  /\ LET level == compute_level(battles_won)
         rolls == IF coins \div 5 < level THEN coins \div 5 ELSE level
     IN  IF cooldowns.hunt > now
           THEN /\ last' = HuntReply("cooldown", 0)
                /\ UNCHANGED << zoo, owned_counts, coins, energy, cooldowns >>
         ELSE IF rolls <= 0
           THEN /\ last' = HuntReply("not_enough_coins", 0)
                /\ UNCHANGED << zoo, owned_counts, coins, energy, cooldowns >>
         ELSE IF energy < rolls
           THEN /\ last' = HuntReply("not_enough_energy", 0)
                /\ UNCHANGED << zoo, owned_counts, coins, energy, cooldowns >>
         ELSE \E picks \in [ 1..rolls -> HuntPicks ] :
                /\ coins' = coins - rolls * 5
                /\ energy' = energy - rolls
                /\ zoo' = HuntLoop(zoo, owned_counts, picks, 1).zoo
                /\ owned_counts' = HuntLoop(zoo, owned_counts, picks, 1).owned_counts
                /\ cooldowns' = [ cooldowns EXCEPT !.hunt = now + HuntCooldown ]
                /\ last' = HuntReply("hunted", rolls)
  /\ UNCHANGED << equipped_foods, equipped_food_wins, battles_won, last_enemy_signature,
                  now, DAILY_COOLDOWNS, pending, foods_owned, battleVars >>

\* the coins, the energy and the wins a hunting profile starts with
HuntCoins == { 0, 4, 5, 14, 15 }

HuntEnergy == 0..3

HuntWins == { 0, 1, 2 }

\* a profile without animals, before or during the hunt cooldown
InitHunt ==
  /\ zoo = EmptyZoo
  /\ owned_counts = recalculate_owned_counts(EmptyZoo)
  /\ team = [ i \in Slots |-> EmptySlot ]
  /\ equipped_foods = << NoFood, NoFood, NoFood >>
  /\ equipped_food_wins = << 0, 0, 0 >>
  /\ coins \in HuntCoins
  /\ energy \in HuntEnergy
  /\ battles_won \in HuntWins
  /\ cooldowns \in { [ hunt |-> 0, battle |-> 0 ],
                     [ hunt |-> NowStart + HuntCooldown, battle |-> 0 ] }
  /\ last_enemy_signature = NoSignature
  /\ now = NowStart
  /\ DAILY_COOLDOWNS = 0
  /\ pending = << >>
  /\ foods_owned = NoFoods
  /\ IdleHandler
  /\ last = [ op |-> "none" ]

NextHunt ==
  \/ Hunt
  \/ Tick

SpecHunt == InitHunt /\ [][NextHunt]_vars

\* C25: /hunt makes rolls = min(level, coins div 5) rolls.  It is refused, and
\* changes nothing, when rolls is 0, when the energy is below rolls, or while
\* the hunt cooldown is running; otherwise it takes exactly 5 * rolls coins
\* and rolls energy, adds exactly rolls animals to the inventory and sets the
\* hunt cooldown to 10 seconds from now.
C25_HuntAccounting ==
  [][ (last'.op = "hunt" /\ now' = now) =>
        LET level == compute_level(battles_won)
            rolls == IF level <= coins \div 5 THEN level ELSE coins \div 5
            Units(z) == recalculate_owned_counts(z)
            total(z) == Units(z)[4] + Units(z)[1]
        IN  IF rolls = 0 \/ energy < rolls \/ cooldowns.hunt > now
              THEN /\ last'.reply \in { "cooldown", "not_enough_coins", "not_enough_energy" }
                   /\ UNCHANGED << zoo, owned_counts, team, coins, energy, battles_won,
                                   cooldowns, equipped_foods, foods_owned >>
            ELSE /\ last'.reply = "hunted"
                 /\ coins' = coins - 5 * rolls
                 /\ energy' = energy - rolls
                 /\ \A a \in AnimalIds, m \in MUTATIONS : zoo'[a][m] >= zoo[a][m]
                 /\ \A a \in AnimalIds \ { 1, 4 } : zoo'[a] = zoo[a]
                 /\ total(zoo') = total(zoo) + rolls
                 /\ cooldowns'.hunt = now + 10
                 /\ cooldowns'.battle = cooldowns.battle ]_vars

\* a hunt of two rolls by a profile of level 3 that could pay for two only,
\* made once the cooldown the profile started with has ended
C25_Witness ==
  /\ last = HuntReply("hunted", 2)
  /\ battles_won = 2
  /\ coins = 4
  /\ energy = 0
  /\ now > NowStart
  /\ cooldowns.hunt = now + 10
  /\ zoo[4]["golden"] = 1 /\ zoo[1]["none"] = 1

\* a hunt refused during the cooldown of the hunt before it
C25_WitnessCooldown ==
  /\ last = HuntReply("cooldown", 0)
  /\ coins = 5
  /\ energy >= 1
  /\ now = NowStart + 9
  /\ cooldowns.hunt = NowStart + 10
  /\ zoo # EmptyZoo

\* ---------------------------------------------------------------- /daily
DailyReply(reply) == [ op |-> "daily", reply |-> reply, at |-> now ]

\* the number of daily rewards after which the model stops claiming
MaxClaims == 3

\* /daily: the cooldown is read from and written to DAILY_COOLDOWNS, the
\* reward to the profile; no await lies between the test and the writes
Daily ==
  /\ pc = "idle"
  /\ team' = migrate_team(team, zoo)
  /\ IF DAILY_COOLDOWNS > now
       THEN /\ last' = DailyReply("cooldown")
            /\ UNCHANGED << coins, energy, DAILY_COOLDOWNS >>
     ELSE /\ coins < 100 * MaxClaims
          /\ coins' = coins + 100
          /\ energy' = energy + 40
          /\ DAILY_COOLDOWNS' = now + DailyCooldown
          /\ last' = DailyReply("claimed")
  /\ UNCHANGED << zoo, owned_counts, equipped_foods, equipped_food_wins, battles_won,
                  cooldowns, last_enemy_signature, now, pending, foods_owned, battleVars >>

\* the process ends and is started again: the module is executed anew, store
\* is read from the file every command has written, DAILY_COOLDOWNS is {}
Startup ==
  /\ pc = "idle"
  /\ pending = << >>
  /\ DAILY_COOLDOWNS' = 0
  /\ UNCHANGED << profileVars, now, pending, foods_owned, battleVars, last >>

\* a new profile in a process that has just started
InitDaily ==
  /\ FreshProfile
  /\ now = NowStart
  /\ DAILY_COOLDOWNS = 0
  /\ pending = << >>
  /\ foods_owned = NoFoods
  /\ IdleHandler
  /\ last = [ op |-> "none" ]

NextDaily ==
  \/ Daily
  \/ Tick
  \/ Startup

SpecDaily == InitDaily /\ [][NextDaily]_vars

\* C26: a successful /daily adds exactly 100 coins and 40 energy; a /daily
\* that follows a successful one by less than 24 hours is refused and leaves
\* coins and energy as they were.
C26_DailyOncePerDay ==
  [][ (last'.op = "daily" /\ now' = now /\ (last' # last \/ coins' # coins)) =>
        /\ last'.reply = "claimed" => (coins' = coins + 100 /\ energy' = energy + 40)
        /\ last'.reply # "claimed" => (coins' = coins /\ energy' = energy)
        /\ (last.op = "daily" /\ last.reply = "claimed" /\ now < last.at + 24 * 3600)
             => last'.reply = "cooldown" ]_vars
\* ---------------------------------------------------------------- claims C27..C30
\* C27: phase A keeps drawing only while no draw was inside the window with a
\* signature other than the requester's last opponent signature, and it never
\* makes more than 300 draws; it leaves the loop at such a draw or after the
\* 300th draw, and a candidate is then always handed to the repair: the draw
\* that ended the loop at once, which is inside the window with a different
\* signature; otherwise a candidate inside the window if some draw was inside
\* it; otherwise a candidate whose distance to the window is the smallest
\* distance any of the 300 draws had.
C27_PhaseASelection ==
  [][ /\ pc = "sample" => (~sample.seen_not_same /\ sample.attempt < MaxAttempts)
      /\ pc = "chosen" =>
           /\ sample.seen_not_same \/ sample.attempt = MaxAttempts
           /\ pc' = "adjust"
           /\ adjust' = [ call |-> 1, loop |-> 1, iter |-> 0 ]
           /\ IF sample.seen_not_same
                THEN /\ InWindow(PlayerWindow, TeamPower(enemy'))
                     /\ enemy_signature(enemy'.animals, enemy'.mutations) # last_enemy_signature
              ELSE IF sample.seen_in_range
                THEN InWindow(PlayerWindow, TeamPower(enemy'))
              ELSE /\ sample.seen_delta > 0
                   /\ Delta(PlayerWindow, TeamPower(enemy')) = sample.seen_delta ]_vars

\* 300 draws were made, none of them inside the window, and the candidate
\* handed to the repair is the tracked one at the smallest distance
C27_Witness ==
  /\ pc = "adjust"
  /\ adjust = [ call |-> 1, loop |-> 1, iter |-> 0 ]
  /\ ~InWindow(PlayerWindow, TeamPower(enemy))
  /\ FoodCount(enemy.foods) + MutatedCount(enemy.mutations) >= 1

\* the loop was left before the 300th draw, after draws that did not end it
C27_WitnessBreak ==
  /\ pc = "chosen"
  /\ sample.seen_not_same
  /\ 0 < sample.attempt /\ sample.attempt < MaxAttempts

\* 300 draws were made, some inside the window, all with the last signature
C27_WitnessInRange ==
  /\ pc = "chosen"
  /\ sample.attempt = MaxAttempts
  /\ sample.seen_in_range
  /\ sample.seen_delta = 0

\* C28: in a repair iteration that starts above the maximum, a mutation is
\* lowered only when no slot has an item, an item that is removed is one of
\* highest power, and the slot lowered is one of highest multiplier, by exactly
\* one tier; in an iteration that starts below the minimum, a mutation is
\* raised only when every slot has an item, and the slot raised is one of
\* lowest multiplier, by exactly one tier.
C28_RepairOrder ==
  [][ pc = "adjust" =>
        LET above   == 200 * TeamPower(enemy) > PlayerWindow.target_max
            below   == 200 * TeamPower(enemy) < PlayerWindow.target_min
            lowered == { i \in Slots : StrengthIndex(enemy'.mutations[i])
                                         < StrengthIndex(enemy.mutations[i]) }
            raised  == { i \in Slots : StrengthIndex(enemy'.mutations[i])
                                         > StrengthIndex(enemy.mutations[i]) }
            removed == { i \in Slots : enemy.foods[i] # NoFood /\ enemy'.foods[i] = NoFood }
        IN  /\ above =>
                 /\ raised = {}
                 /\ \A i \in removed :
                      /\ removed = { i } /\ lowered = {}
                      /\ \A j \in Slots : food_power(enemy.foods[j]) <= food_power(enemy.foods[i])
                 /\ \A i \in lowered :
                      /\ lowered = { i }
                      /\ \A j \in Slots : enemy.foods[j] = NoFood
                      /\ \A j \in Slots : StrengthIndex(enemy.mutations[j])
                                            <= StrengthIndex(enemy.mutations[i])
                      /\ StrengthIndex(enemy'.mutations[i]) = StrengthIndex(enemy.mutations[i]) - 1
            /\ below =>
                 \A i \in raised :
                   /\ raised = { i }
                   /\ \A j \in Slots : enemy.foods[j] # NoFood
                   /\ \A j \in Slots : StrengthIndex(enemy.mutations[j])
                                         >= StrengthIndex(enemy.mutations[i])
                   /\ StrengthIndex(enemy'.mutations[i]) = StrengthIndex(enemy.mutations[i]) + 1 ]_vars
\* ---------------------------------------------------------------- the repair on chosen candidates
\* requester of the repair specification whose window lies below strong
\* opponents of its allowed rarities: goat, golden chicken, butterfly; mean
\* rarity index round(5 / 3) = 2, allowed rarities uncommon, rare, epic
RepairWeak ==
  [ animals |-> << 8, 2, 38 >>, foods |-> << 0, 0, 0 >>,
    mutations |-> << "none", "golden", "none" >> ]

\* hippo, wolf, swan_epic: the strongest units of the three roles in the
\* allowed rarities of RepairWeak
RepairStrong == << 28, 20, 31 >>

\* the states in which adjust_enemy_team is entered, or in which its final
\* pass is entered after 350 iterations that each re-rolled a slot to what it
\* held: for RepairWeak the strong opponent bare, with an item, or with a
\* mutation; for the second requester of PlayerTeams pig, mouse, bug bare, and
\* with every mutation at the top before the final pass
RepairStarts ==
  { [ player |-> RepairWeak, loop |-> l,
      enemy |-> [ animals |-> RepairStrong, foods |-> << 0, 0, 0 >>,
                  mutations |-> << "none", "none", "none" >> ] ] : l \in { 1, 2 } }
  \cup
  { [ player |-> RepairWeak, loop |-> 1,
      enemy |-> [ animals |-> RepairStrong, foods |-> << f, 0, 0 >>,
                  mutations |-> << "none", m, "none" >> ] ] :
      f \in FoodDraws[RepairStrong[1]], m \in random_enemy_mutation }
  \cup
  { [ player |-> PlayerTeams[2], loop |-> 1,
      enemy |-> [ animals |-> << 4, 1, 9 >>, foods |-> << 0, 0, 0 >>,
                  mutations |-> << "none", "none", "none" >> ] ],
    [ player |-> PlayerTeams[2], loop |-> 2,
      enemy |-> [ animals |-> << 4, 1, 9 >>, foods |-> << 0, 0, 0 >>,
                  mutations |-> << "rainbow", "rainbow", "rainbow" >> ] ] }

InitRepair ==
  /\ \E s \in RepairStarts :
       /\ team = [ i \in Slots |-> [ animal |-> s.player.animals[i],
                                     mutation |-> s.player.mutations[i] ] ]
       /\ zoo = ZooOfTeam(s.player)
       /\ equipped_foods = s.player.foods
       /\ enemy = s.enemy
       /\ adjust = [ call |-> 1, loop |-> s.loop, iter |-> 0 ]
  /\ owned_counts = recalculate_owned_counts(zoo)
  /\ equipped_food_wins = << 0, 0, 0 >>
  /\ coins = 0
  /\ energy = 0
  /\ battles_won = 0
  /\ cooldowns = [ hunt |-> 0, battle |-> 0 ]
  /\ last_enemy_signature = NoSignature
  /\ now = NowStart
  /\ DAILY_COOLDOWNS = 0
  /\ pending = << >>
  /\ foods_owned = NoFoods
  /\ pc = "adjust"
  /\ sample = NoSample
  /\ fight = NoFight
  /\ last = BattleReply("running")

NextRepair ==
  \/ Adjust
  \/ AfterAdjust

SpecRepair == InitRepair /\ [][NextRepair]_vars
C29_WitnessAbove ==
  /\ pc \in { "adjust", "adjusted" }
  /\ adjust.loop = 1
  /\ team[1].animal = RepairWeak.animals[1]
  /\ enemy.animals # RepairStrong

\* the final pass, above the maximum with nothing to reduce, has re-rolled a
\* slot of the strong opponent
C29_WitnessFinalAbove ==
  /\ pc \in { "adjust", "adjusted" }
  /\ adjust.loop = 2
  /\ team[1].animal = RepairWeak.animals[1]
  /\ enemy.animals # RepairStrong

\* the final pass, below the minimum with nothing to add or to raise, has put
\* a unit of the highest allowed rarity with the strongest item into a slot
C29_WitnessFinalBelow ==
  /\ pc \in { "adjust", "adjusted" }
  /\ adjust.loop = 2
  /\ team[1].animal = PlayerTeams[2].animals[1]
  /\ \E i \in Slots : /\ ANIMALS[enemy.animals[i]].rarity_index = 1
                      /\ enemy.foods[i] = strongest_food
                      /\ enemy.mutations[i] = "rainbow"

\* C30: from the start of the repair to the end of the battle, whatever the
\* repair has done, the unit in each opponent slot has the slot's role (slot
\* 1 TANK, slot 2 ATTACK, slot 3 SUPPORT) and a rarity index in the allowed
\* set: the requester's rounded mean rarity index, one below and one above,
\* within 0..6.
C30_RoleAndRarityKept ==
  pc \in { "adjust", "adjusted", "combat", "resolve" } =>
    LET mean == (2 * ( ANIMALS[team[1].animal].rarity_index
                       + ANIMALS[team[2].animal].rarity_index
                       + ANIMALS[team[3].animal].rarity_index ) + 3) \div 6
    IN  \A i \in Slots :
          /\ ANIMALS[enemy.animals[i]].role = << "TANK", "ATTACK", "SUPPORT" >>[i]
          /\ ANIMALS[enemy.animals[i]].rarity_index \in 0..6
          /\ ANIMALS[enemy.animals[i]].rarity_index >= mean - 1
          /\ ANIMALS[enemy.animals[i]].rarity_index <= mean + 1

\* a repair call has ended after replacing the unit of a slot by a unit of
\* another rarity
C30_Witness ==
  /\ pc = "adjusted"
  /\ \E i \in Slots :
       /\ enemy.animals[i] \notin { RepairStrong[i], PlayerTeams[2].animals[i] }
       /\ ANIMALS[enemy.animals[i]].rarity_index = 1
\* ---------------------------------------------------------------- acquisition mutation
\* roll_mutation on a roll held in tenths of a point: random.random() * 100 is
\* in [0, 100), the thresholds 1.0, 3.5, 8.5 and 18.5 are exact sums
RollScale == 10

\* mutant: every band is tested against its own width, not the running sum
roll_mutation_bands(roll) ==
  IF roll < 10 THEN "rainbow"
  ELSE IF roll < 25 THEN "emerald"
  ELSE IF roll < 50 THEN "diamond"
  ELSE IF roll < 100 THEN "golden"
  ELSE "none"
roll_mutation(roll) ==
  IF roll < 10 THEN "rainbow"
  ELSE IF roll < 10 + 25 THEN "emerald"
  ELSE IF roll < 10 + 25 + 50 THEN "diamond"
  ELSE IF roll < 10 + 25 + 50 + 100 THEN "golden"
  ELSE "none"

InitMutation ==
  /\ FreshProfile
  /\ now = NowStart
  /\ DAILY_COOLDOWNS = 0
  /\ pending = << >>
  /\ foods_owned = NoFoods
  /\ IdleHandler
  /\ \E r \in 0..(100 * RollScale - 1) :
       last = [ op |-> "roll_mutation", roll |-> r, called |-> FALSE, result |-> "none" ]

RollMutation ==
  /\ last.op = "roll_mutation"
  /\ ~last.called
  /\ last' = [ last EXCEPT !.called = TRUE, !.result = roll_mutation(last.roll) ]
  /\ UNCHANGED << profileVars, now, DAILY_COOLDOWNS, pending, foods_owned, battleVars >>

NextMutation == RollMutation

SpecMutation == InitMutation /\ [][NextMutation]_vars
\* ---------------------------------------------------------------- claims C31..
\* C31: for every roll r in [0, 100) the acquisition draw returns rainbow if
\* r < 1.0, emerald if 1.0 <= r < 3.5, diamond if 3.5 <= r < 8.5, golden if
\* 8.5 <= r < 18.5, and none otherwise (rolls in tenths).
C31_AcquisitionTable ==
  (last.op = "roll_mutation" /\ last.called) =>
    LET r == last.roll
    IN  /\ (0 <= r /\ r < 10)      => last.result = "rainbow"
        /\ (10 <= r /\ r < 35)     => last.result = "emerald"
        /\ (35 <= r /\ r < 85)     => last.result = "diamond"
        /\ (85 <= r /\ r < 185)    => last.result = "golden"
        /\ (185 <= r /\ r < 1000)  => last.result = "none"

\* a roll on a threshold: 3.5 falls in the diamond band
C31_Witness ==
  /\ last.op = "roll_mutation"
  /\ last.called
  /\ last.roll = 35
  /\ last.result = "diamond"

\* ---------------------------------------------------------------- /buy, admin give and remove
BuyReply(food, reply) == [ op |-> "buy", food |-> food, reply |-> reply ]

\* mutant: the price is taken without the test of the coins
Buy_noCheck(food) ==
  /\ pc = "idle"
  /\ IF food = NoFood
       THEN /\ last' = BuyReply(food, "unknown_food")
            /\ UNCHANGED << team, coins, foods_owned >>
     ELSE /\ team' = migrate_team(team, zoo)
          /\ coins' = coins - FOODS[food].cost
          /\ foods_owned' = [ foods_owned EXCEPT ![food] = @ + 1 ]
          /\ last' = BuyReply(food, "bought")
  /\ UNCHANGED << zoo, owned_counts, equipped_foods, equipped_food_wins, energy, battles_won,
                  cooldowns, last_enemy_signature, now, DAILY_COOLDOWNS, pending, battleVars >>
\* /buy: refused when the coins are below the cost; no await lies between the
\* test and the writes
Buy(food) ==
  /\ pc = "idle"
  /\ IF food = NoFood
       THEN /\ last' = BuyReply(food, "unknown_food")
            /\ UNCHANGED << team, coins, foods_owned >>
     ELSE /\ team' = migrate_team(team, zoo)
          /\ IF coins < FOODS[food].cost
               THEN /\ last' = BuyReply(food, "not_enough_coins")
                    /\ UNCHANGED << coins, foods_owned >>
             ELSE /\ coins' = coins - FOODS[food].cost
                  /\ foods_owned' = [ foods_owned EXCEPT ![food] = @ + 1 ]
                  /\ last' = BuyReply(food, "bought")
  /\ UNCHANGED << zoo, owned_counts, equipped_foods, equipped_food_wins, energy, battles_won,
                  cooldowns, last_enemy_signature, now, DAILY_COOLDOWNS, pending, battleVars >>

GiveReply(type, animal, mutation, amount, reply) ==
  [ op |-> "admin_give", type |-> type, animal |-> animal, mutation |-> mutation,
    amount |-> amount, reply |-> reply ]

\* AdminCommands.give by the permitted user: animals, energy or coins are added
AdminGive(type, animal, mutation, amount) ==
  /\ pc = "idle"
  /\ IF amount <= 0
       THEN /\ last' = GiveReply(type, animal, mutation, amount, "invalid_amount")
            /\ UNCHANGED << team, zoo, owned_counts, coins, energy >>
     ELSE /\ team' = migrate_team(team, zoo)
          /\ IF type = "animal"
               THEN IF animal = NoAnimal
                      THEN /\ last' = GiveReply(type, animal, mutation, amount, "unknown_animal")
                           /\ UNCHANGED << zoo, owned_counts, coins, energy >>
                    ELSE IF mutation \notin MUTATIONS
                      THEN /\ last' = GiveReply(type, animal, mutation, amount,
                                                "invalid_mutation")
                           /\ UNCHANGED << zoo, owned_counts, coins, energy >>
                    ELSE /\ zoo' = add_animal(zoo, animal, mutation, amount)
                         /\ owned_counts' = adjust_owned_count(owned_counts, animal, amount)
                         /\ last' = GiveReply(type, animal, mutation, amount, "gave")
                         /\ UNCHANGED << coins, energy >>
             ELSE IF type = "energy"
               THEN /\ energy' = energy + amount
                    /\ last' = GiveReply(type, animal, mutation, amount, "gave")
                    /\ UNCHANGED << zoo, owned_counts, coins >>
             ELSE /\ coins' = coins + amount
                  /\ last' = GiveReply(type, animal, mutation, amount, "gave")
                  /\ UNCHANGED << zoo, owned_counts, energy >>
  /\ UNCHANGED << equipped_foods, equipped_food_wins, battles_won, cooldowns,
                  last_enemy_signature, now, DAILY_COOLDOWNS, pending, foods_owned,
                  battleVars >>

\* AdminCommands.remove of type energy or coins: the resource is lowered by the
\* amount and clamped at 0
AdminRemoveResource(type, amount) ==
  /\ pc = "idle"
  /\ IF amount <= 0
       THEN /\ last' = [ op |-> "admin_remove", type |-> type, amount |-> amount,
                         reply |-> "invalid_amount", applied |-> 0 ]
            /\ UNCHANGED << team, coins, energy >>
     ELSE /\ team' = migrate_team(team, zoo)
          /\ IF type = "energy"
               THEN /\ energy' = Max2(0, energy - amount)
                    /\ last' = [ op |-> "admin_remove", type |-> type, amount |-> amount,
                                 reply |-> "removed",
                                 applied |-> energy - Max2(0, energy - amount) ]
                    /\ UNCHANGED coins
             ELSE /\ coins' = Max2(0, coins - amount)
                  /\ last' = [ op |-> "admin_remove", type |-> type, amount |-> amount,
                               reply |-> "removed",
                               applied |-> coins - Max2(0, coins - amount) ]
                  /\ UNCHANGED energy
  /\ UNCHANGED << zoo, owned_counts, equipped_foods, equipped_food_wins, battles_won,
                  cooldowns, last_enemy_signature, now, DAILY_COOLDOWNS, pending, foods_owned,
                  battleVars >>

\* ---------------------------------------------------------------- economy specification
\* the units the profile holds beside its team: mice and pigs
TotalOwned == owned_counts[1] + owned_counts[4]

\* no food in the inventory and no sale waiting for its confirmation
NoStock == foods_owned = NoFoods /\ pending = << >>

\* no battle of the profile has been resolved
NoBattleYet == cooldowns.battle = 0

\* trex, dragon and unicorn on the team, nothing else owned, no coins, no energy
InitEconomy ==
  /\ team = [ i \in Slots |-> [ animal |-> PlayerTeams[4].animals[i],
                                mutation |-> PlayerTeams[4].mutations[i] ] ]
  /\ zoo = ZooOfTeam(PlayerTeams[4])
  /\ owned_counts = recalculate_owned_counts(ZooOfTeam(PlayerTeams[4]))
  /\ equipped_foods = PlayerTeams[4].foods
  /\ equipped_food_wins = << 0, 0, 0 >>
  /\ coins = 0
  /\ energy = 0
  /\ battles_won = 0
  /\ cooldowns = [ hunt |-> 0, battle |-> 0 ]
  /\ last_enemy_signature = NoSignature
  /\ now = NowStart
  /\ DAILY_COOLDOWNS = 0
  /\ pending = << >>
  /\ foods_owned = NoFoods
  /\ IdleHandler
  /\ last = [ op |-> "none" ]

\* every command that changes coins, energy, foods or animals, tried where the
\* profile is close to empty: the food commands while no mouse or pig is owned,
\* the animal commands while no food is owned, the daily reward and the battle
\* from the profile with no or few coins; the battle is the last command of a run
NextEconomy ==
  \/ (NoBattleYet /\ coins = 0 /\ energy = 0 /\ TotalOwned = 0 /\ NoStock /\ Daily)
  \/ (NoBattleYet /\ TotalOwned < MaxOwned - 2 /\ foods_owned = NoFoods /\ Hunt)
  \/ (NoBattleYet /\ foods_owned[1] < 2 /\ coins < 25 /\ TotalOwned = 0 /\ Buy(1))
  \/ (NoBattleYet /\ TotalOwned = 0 /\ UseFood(1, 1))
  \/ \E amount \in SellAmounts :
       (NoBattleYet /\ amount.all /\ coins < 10 /\ TotalOwned = 0 /\ SellFood(1, amount))
  \/ \E amount \in SellAmounts :
       (NoBattleYet /\ amount.all /\ coins < 10 /\ NoStock
         /\ SellStart("rarity", 0, amount, "any"))
  \/ \E k \in 1..MaxPending : (NoBattleYet /\ SellConfirm(k))
  \/ \E k \in 1..MaxPending : (NoBattleYet /\ SellCancel(k))
  \/ (NoBattleYet /\ foods_owned = NoFoods /\ Fuse(4, "none", 49))
  \/ (NoBattleYet /\ TotalOwned = 0 /\ NoStock /\ AdminGive("animal", 4, "none", 4))
  \/ \E type \in { "energy", "coins" } :
       (NoBattleYet /\ coins < 10 /\ energy < 2 /\ AdminGive(type, NoAnimal, "none", 5))
  \/ (NoBattleYet /\ foods_owned = NoFoods /\ AdminRemove(4, "none", 2))
  \/ \E type \in { "energy", "coins" } : (NoBattleYet /\ AdminRemoveResource(type, 1000))
  \/ (coins \in { 0, 5 } /\ energy = 0 /\ TotalOwned = 0 /\ NoStock /\ cooldowns.hunt = 0
        /\ equipped_foods[1] = NoFood /\ DAILY_COOLDOWNS = 0 /\ BattleStart)
  \/ Sample
  \/ Choose
  \/ Adjust
  \/ AfterAdjust
  \/ Combat
  \/ Resolve

SpecEconomy == InitEconomy /\ [][NextEconomy]_vars

\* ---------------------------------------------------------------- claim C32
\* C32: after any sequence of daily, hunt, buy, use, sell, fuse, battle and
\* admin give and remove operations on a profile that starts with non-negative
\* values, the coins, the energy, every food count and every animal count of
\* every mutation tier are at least 0
C32_NonNegative ==
  /\ coins >= 0
  /\ energy >= 0
  /\ \A f \in FoodIds : foods_owned[f] >= 0
  /\ \A a \in AnimalIds : \A m \in MUTATIONS : zoo[a][m] >= 0

\* a /buy refused for lack of coins on a profile that has coins
C32_Witness ==
  /\ last.op = "buy"
  /\ last.reply = "not_enough_coins"
  /\ coins > 0

\* an admin remove of more coins than the profile held has left it at 0
C32_WitnessClamp ==
  /\ last.op = "admin_remove"
  /\ last.reply = "removed"
  /\ "applied" \in DOMAIN last
  /\ last.applied > 0
  /\ last.applied < last.amount
  /\ coins = 0

\* ---------------------------------------------------------------- claim C33
\* C33: after any sequence of admin give, admin remove, hunt, sell and fuse
\* operations the global owned count of each animal equals the sum of that
\* animal's owned units over all mutation tiers
C33_OwnedCountsInSync ==
  \A a \in AnimalIds : owned_counts[a] = recalculate_owned_counts(zoo)[a]

\* a fusion has taken four plain pigs and credited one golden pig
C33_Witness ==
  /\ last.op = "fuse"
  /\ last.reply = "fusion_complete"
  /\ zoo[4]["golden"] >= 1
  /\ owned_counts[4] = zoo[4]["none"] + zoo[4]["golden"]

\* a confirmed sale has sold fewer units than its plan named, the others having
\* left the zoo while the confirmation was awaited
C33_WitnessStalePlan ==
  /\ last.op = "sell"
  /\ last.reply = "sold"
  /\ Len(last.plan) = 1
  /\ last.total_sold > 0
  /\ last.total_sold < last.plan[1].qty

\* ---------------------------------------------------------------- battle cooldown
\* a profile with a complete team that has not fought yet
InitCooldown ==
  /\ \E k \in { 4 } :
       /\ team = [ i \in Slots |-> [ animal |-> PlayerTeams[k].animals[i],
                                     mutation |-> PlayerTeams[k].mutations[i] ] ]
       /\ zoo = ZooOfTeam(PlayerTeams[k])
       /\ owned_counts = recalculate_owned_counts(ZooOfTeam(PlayerTeams[k]))
       /\ equipped_foods = PlayerTeams[k].foods
  /\ equipped_food_wins = << 0, 0, 0 >>
  /\ coins = 0
  /\ energy = 0
  /\ battles_won = 0
  /\ cooldowns = [ hunt |-> 0, battle |-> 0 ]
  /\ last_enemy_signature = NoSignature
  /\ now = NowStart
  /\ DAILY_COOLDOWNS = 0
  /\ pending = << >>
  /\ foods_owned = NoFoods
  /\ IdleHandler
  /\ last = [ op |-> "none" ]

\* /battle commands with the clock read 0, 9 and 10 seconds after the start
NextCooldown ==
  \/ BattleStart
  \/ Sample
  \/ Choose
  \/ Adjust
  \/ AfterAdjust
  \/ Combat
  \/ Resolve
  \/ (Tick /\ now' <= NowStart + BattleCooldown)

SpecCooldown == InitCooldown /\ [][NextCooldown]_vars

\* ---------------------------------------------------------------- claim C34
\* C34: every resolved battle, won or lost, sets the battle cooldown to 10
\* seconds after the time the command read; a /battle that reads the clock
\* while the cooldown is running is refused and changes nothing (the team is as
\* load_profile leaves it); hence a battle is resolved only when the cooldown
\* of the battle before it is over, at least 10 seconds after it
C34_BattleCooldown ==
  [][ /\ ( pc = "resolve" /\ pc' = "idle" ) =>
           /\ cooldowns'.battle = now + 10
           /\ cooldowns.battle <= now
      /\ ( pc = "idle" /\ last'.op = "battle" /\ now' = now /\ cooldowns.battle > now
             /\ ( last' # last \/ team' # team ) ) =>
           /\ last'.reply = "cooldown"
           /\ pc' = "idle"
           /\ team' = migrate_team(team, zoo)
           /\ UNCHANGED << zoo, owned_counts, equipped_foods, equipped_food_wins, coins,
                           energy, battles_won, cooldowns, last_enemy_signature,
                           foods_owned, pending, battleVars >> ]_vars

\* a battle refused 9 seconds after a resolved one
C34_Witness ==
  /\ last = BattleReply("cooldown")
  /\ cooldowns.battle = NowStart + 10
  /\ now = NowStart + 9

\* a second battle resolved, 10 seconds after the first
C34_WitnessSecond ==
  /\ last.op = "battle"
  /\ last.reply \in { "won", "lost" }
  /\ now = NowStart + 10
  /\ cooldowns.battle = NowStart + 20
  /\ last_enemy_signature # NoSignature

\* ---------------------------------------------------------------- team ownership
\* MaxOwned plain pigs, a mouse and a bug; pig, mouse and bug on the team
InitOwned ==
  /\ zoo = [ ZooOfTeam(PlayerTeams[1]) EXCEPT ![4]["none"] = MaxOwned ]
  /\ owned_counts = recalculate_owned_counts(zoo)
  /\ team = [ i \in Slots |-> [ animal |-> PlayerTeams[1].animals[i], mutation |-> "none" ] ]
  /\ equipped_foods = << NoFood, NoFood, NoFood >>
  /\ equipped_food_wins = << 0, 0, 0 >>
  /\ coins = 0
  /\ energy = 0
  /\ battles_won = 0
  /\ cooldowns = [ hunt |-> 0, battle |-> 0 ]
  /\ last_enemy_signature = NoSignature
  /\ now = NowStart
  /\ DAILY_COOLDOWNS = 0
  /\ pending = << >>
  /\ foods_owned = NoFoods
  /\ IdleHandler
  /\ last = [ op |-> "none" ]

\* team add and remove, sales with their confirmation, fusions and admin
\* removals of pigs, then a battle once at most one pig is left and at most
\* one coin was earned
NextOwned ==
  \/ (NoBattleYet /\ TeamAdd(4, 1))
  \/ (NoBattleYet /\ TeamRemove(1))
  \/ \E amount \in SellAmounts : (NoBattleYet /\ SellStart("animal", 4, amount, "any"))
  \/ \E amount \in SellAmounts :
       (NoBattleYet /\ amount.all /\ pending = << >> /\ SellStart("rarity", 0, amount, "any"))
  \/ \E k \in 1..MaxPending : (NoBattleYet /\ SellConfirm(k))
  \/ \E k \in 1..MaxPending : (NoBattleYet /\ SellCancel(k))
  \/ \E roll \in SellRolls : (NoBattleYet /\ Fuse(4, "none", roll))
  \/ \E mutation \in { "none", "golden" }, amount \in { 1, 2 } :
       (NoBattleYet /\ AdminRemove(4, mutation, amount))
  \/ (pending = << >> /\ coins <= 1 /\ owned_counts[4] <= 1 /\ BattleStart)
  \/ Sample
  \/ Choose
  \/ Adjust
  \/ AfterAdjust
  \/ Combat
  \/ Resolve

SpecOwned == InitOwned /\ [][NextOwned]_vars

\* ---------------------------------------------------------------- claim C35
\* C35: while a battle is fought every team slot of the requester names an
\* animal and a mutation tier of which the zoo holds at least one unit,
\* whatever team add, sales, fusions and admin removals came before
C35_FoughtTeamOwned ==
  pc # "idle" =>
    \A i \in Slots :
      /\ team[i].animal # NoAnimal
      /\ zoo[team[i].animal][team[i].mutation] > 0

\* a battle fought with the golden pig to which the repair moved slot 1 after
\* the plain pigs had left the zoo
C35_Witness ==
  /\ pc = "combat"
  /\ team[1] = [ animal |-> 4, mutation |-> "golden" ]
  /\ zoo[4]["none"] = 0

\* the same after a confirmed sale whose plan was made before a fusion took
\* four of the five plain pigs: the sale took the pig of slot 1
C35_WitnessAfterSale ==
  /\ pc = "combat"
  /\ coins = 1
  /\ team[1] = [ animal |-> 4, mutation |-> "golden" ]
  /\ zoo[4]["none"] = 0

\* ---------------------------------------------------------------- claim C36
\* the health map of one side against its item-adjusted maxima: every slot
\* between 0 and its maximum, the slots before the first living slot at 0, the
\* slots after it at their maximum
HealthShape(hp_map, st) ==
  \A i \in Slots :
    /\ hp_map[i] \in 0..st[i].hp
    /\ i < first_alive(hp_map) => hp_map[i] = 0
    /\ first_alive(hp_map) = 0 => hp_map[i] = 0
    /\ (first_alive(hp_map) # 0 /\ i > first_alive(hp_map)) => hp_map[i] = st[i].hp

\* C36: at every step of combat, on both sides, the health of every slot is an
\* integer between 0 and its item-adjusted maximum and never increases; the
\* slots before the side's first living slot are at 0, the slots after it at
\* full health
C36_HealthShape ==
  /\ [] ( pc \in { "combat", "resolve" } =>
            /\ HealthShape(fight.player_hp, player_stats)
            /\ HealthShape(fight.enemy_hp, enemy_stats) )
  /\ [][ pc = "combat" =>
           \A i \in Slots : /\ fight'.player_hp[i] <= fight.player_hp[i]
                            /\ fight'.enemy_hp[i] <= fight.enemy_hp[i] ]_vars

\* the requester's slot 1 has fallen, slot 2 is wounded, slot 3 untouched, and
\* the opponent has lost health too
C36_Witness ==
  /\ pc = "combat"
  /\ fight.player_hp[1] = 0
  /\ fight.player_hp[2] > 0
  /\ fight.player_hp[2] < player_stats[2].hp
  /\ fight.player_hp[3] = player_stats[3].hp
  /\ \E i \in Slots : fight.enemy_hp[i] < enemy_stats[i].hp

\* ---------------------------------------------------------------- combat between catalog teams
\* the units of the combat specification: the trio of highest health and
\* defense (trex, dragon, unicorn) and the trio of lowest attack (turtle,
\* chicken, owl)
CatalogTrios == { << 40, 39, 41 >>, << 18, 2, 25 >> }

\* the items of the requester: none or ancient_seed (the highest health bonus)
CatalogPlayerFoods == { NoFood, 26 }

\* the items of the opponent: none, ancient_seed or unicorn_cake (the highest
\* defense bonus)
CatalogEnemyFoods == { NoFood, 26, 24 }

\* two teams of the catalog at the first test of the combat loop
InitElimination ==
  /\ \E units \in CatalogTrios, foods \in [ Slots -> CatalogPlayerFoods ] :
       /\ team = [ i \in Slots |-> [ animal |-> units[i], mutation |-> "none" ] ]
       /\ equipped_foods = << foods[1], foods[2], foods[3] >>
  /\ zoo = ZooOfTeam([ animals |-> player_animals, mutations |-> player_mutations ])
  /\ owned_counts = recalculate_owned_counts(zoo)
  /\ equipped_food_wins = << 0, 0, 0 >>
  /\ coins = 0
  /\ energy = 0
  /\ battles_won = 0
  /\ cooldowns = [ hunt |-> 0, battle |-> 0 ]
  /\ now = NowStart
  /\ DAILY_COOLDOWNS = 0
  /\ pending = << >>
  /\ foods_owned = NoFoods
  /\ \E units \in CatalogTrios, foods \in [ Slots -> CatalogEnemyFoods ] :
       enemy = [ animals |-> units, foods |-> << foods[1], foods[2], foods[3] >>,
                 mutations |-> << "none", "none", "none" >> ]
  /\ last_enemy_signature = enemy_signature(enemy.animals, enemy.mutations)
  /\ sample = NoSample
  /\ adjust = NoAdjust
  /\ fight = start_fight([ i \in Slots |-> player_stats[i].hp ],
                         [ i \in Slots |-> enemy_stats[i].hp ])
  /\ pc = "combat"
  /\ last = BattleReply("running")

NextElimination ==
  \/ Combat
  \/ Resolve

SpecElimination == InitElimination /\ [][NextElimination]_vars

\* ---------------------------------------------------------------- claim C37
\* C37: between teams of the catalog the combat loop ends because one side has
\* no living slot: the state with both sides alive after round 100 is not
\* reached and the tie-break of the round cap decides no battle
C37_EndsByElimination ==
  /\ ~cap_reached(fight)
  /\ pc \in { "combat", "resolve" } => fight.rounds < MaxRounds
  /\ pc = "resolve" =>
       ( first_alive(fight.player_hp) = 0 \/ first_alive(fight.enemy_hp) = 0 )
  /\ last.cap_reached = FALSE

\* the longest combat of the specification: both sides trex, dragon, unicorn
\* with ancient_seed in every slot, ended by elimination in round 61
C37_Witness ==
  /\ pc = "resolve"
  /\ fight.rounds = 61
  /\ first_alive(fight.player_hp) = 0 \/ first_alive(fight.enemy_hp) = 0
  /\ enemy.foods = << 26, 26, 26 >>
  /\ equipped_foods = << 26, 26, 26 >>

\* ---------------------------------------------------------------- run_bot_with_backoff
\* the loop around client.start: `last` holds the loop's locals, the exception
\* caught last and the waits handed to asyncio.sleep so far
backoff_seconds_start == 60
max_backoff_seconds == 600

\* rate limits answered in one run
MaxRateLimits == 6

\* exc.status of a discord.HTTPException
HttpStatuses == { 429, 401, 500 }

\* getattr(exc, "retry_after", None): missing, or the number of seconds carried
RetryAfters == { [ supplied |-> FALSE, value |-> 0 ], [ supplied |-> TRUE, value |-> 0 ],
                 [ supplied |-> TRUE, value |-> 30 ], [ supplied |-> TRUE, value |-> 700 ] }

NoRetryAfter == [ supplied |-> FALSE, value |-> 0 ]

\* getattr(exc, "retry_after", None) or backoff_seconds: None and 0 are both false
retry_after_or(retry_after, backoff_seconds) ==
  IF retry_after.supplied /\ retry_after.value # 0 THEN retry_after.value ELSE backoff_seconds

InitBackoff ==
  /\ FreshProfile
  /\ now = NowStart
  /\ DAILY_COOLDOWNS = 0
  /\ pending = << >>
  /\ foods_owned = NoFoods
  /\ IdleHandler
  /\ last = [ op |-> "run_bot", at |-> "start", backoff_seconds |-> backoff_seconds_start,
              status |-> 0, retry_after |-> NoRetryAfter, waits |-> << >> ]

\* mutant: the backoff doubles without the cap
Start429_noCap(retry_after) ==
  /\ last.op = "run_bot"
  /\ last.at = "start"
  /\ Len(last.waits) < MaxRateLimits
  /\ last' = [ last EXCEPT !.at = "sleep", !.status = 429, !.retry_after = retry_after,
                           !.waits = Append(@, retry_after_or(retry_after, last.backoff_seconds)),
                           !.backoff_seconds = last.backoff_seconds * 2 ]
  /\ UNCHANGED << profileVars, now, DAILY_COOLDOWNS, pending, foods_owned, battleVars >>
\* client.start raises HTTPException with status 429: the wait is computed, the
\* backoff doubled up to the cap, and the loop is in asyncio.sleep
Start429(retry_after) ==
  /\ last.op = "run_bot"
  /\ last.at = "start"
  /\ Len(last.waits) < MaxRateLimits
  /\ last' = [ last EXCEPT !.at = "sleep", !.status = 429, !.retry_after = retry_after,
                           !.waits = Append(@, retry_after_or(retry_after, last.backoff_seconds)),
                           !.backoff_seconds = Min2(last.backoff_seconds * 2, max_backoff_seconds) ]
  /\ UNCHANGED << profileVars, now, DAILY_COOLDOWNS, pending, foods_owned, battleVars >>

\* asyncio.sleep returns and `continue` starts the next iteration
SleepOver ==
  /\ last.op = "run_bot"
  /\ last.at = "sleep"
  /\ last' = [ last EXCEPT !.at = "start" ]
  /\ UNCHANGED << profileVars, now, DAILY_COOLDOWNS, pending, foods_owned, battleVars >>

\* client.start raises HTTPException with another status: re-raised
StartFails(status, retry_after) ==
  /\ last.op = "run_bot"
  /\ last.at = "start"
  /\ status # 429
  /\ last' = [ last EXCEPT !.at = "raised", !.status = status, !.retry_after = retry_after ]
  /\ UNCHANGED << profileVars, now, DAILY_COOLDOWNS, pending, foods_owned, battleVars >>

\* client.start returns: break
StartReturns ==
  /\ last.op = "run_bot"
  /\ last.at = "start"
  /\ last' = [ last EXCEPT !.at = "done" ]
  /\ UNCHANGED << profileVars, now, DAILY_COOLDOWNS, pending, foods_owned, battleVars >>

NextBackoff ==
  \/ \E retry_after \in RetryAfters : Start429(retry_after)
  \/ SleepOver
  \/ \E status \in HttpStatuses, retry_after \in RetryAfters : StartFails(status, retry_after)
  \/ StartReturns

SpecBackoff == InitBackoff /\ [][NextBackoff]_vars

\* ---------------------------------------------------------------- claims on the start loop
\* a step of the loop that catches a 429
Is429Step == last.op = "run_bot" /\ last.at = "start" /\ last'.at = "sleep"

\* C38 as stated: the start is retried only after a 429; the wait is retry_after
\* whenever the exception carries one, else the current backoff; the backoff
\* starts at 60, doubles after each 429 and never exceeds 600; another HTTP
\* error propagates without a retry and a normal return ends the loop
C38_WaitsRetryAfterWhenSupplied ==
  [][ Is429Step =>
        last'.waits[Len(last'.waits)] =
          IF last'.retry_after.supplied THEN last'.retry_after.value
          ELSE last.backoff_seconds ]_vars

\* C38 amended: the wait is retry_after when the exception carries one that is
\* not zero, else the current backoff; the rest as stated
C38_Backoff ==
  /\ [] ( last.op = "run_bot" =>
            /\ last.backoff_seconds =
                 Min2(backoff_seconds_start * 2 ^ Len(last.waits), max_backoff_seconds)
            /\ last.backoff_seconds <= max_backoff_seconds
            /\ last.at = "sleep" => last.status = 429
            /\ last.at = "raised" => last.status # 429 )
  /\ [][ /\ Is429Step =>
              /\ last'.status = 429
              /\ Len(last'.waits) = Len(last.waits) + 1
              /\ last'.waits[Len(last'.waits)] =
                   IF last'.retry_after.supplied /\ last'.retry_after.value # 0
                   THEN last'.retry_after.value
                   ELSE last.backoff_seconds
              /\ last'.backoff_seconds = Min2(last.backoff_seconds * 2, max_backoff_seconds)
         /\ (last.op = "run_bot" /\ ~Is429Step) =>
              /\ last'.waits = last.waits
              /\ last'.backoff_seconds = last.backoff_seconds
         /\ (last.op = "run_bot" /\ last'.at = "start") => last.at = "sleep"
         /\ last.op = "run_bot" => last.at \notin { "done", "raised" }
         /\ (last.op = "run_bot" /\ last.at = "start" /\ last'.status # 429) =>
              last'.at \in { "done", "raised" } ]_vars

\* the sixth rate limit in a row carries retry_after 0: the loop sleeps the
\* capped backoff of 600 seconds
C38_Witness ==
  /\ last.op = "run_bot"
  /\ last.at = "sleep"
  /\ Len(last.waits) = 6
  /\ last.retry_after = [ supplied |-> TRUE, value |-> 0 ]
  /\ last.waits[6] = max_backoff_seconds
  /\ last.waits[1] = 700

\* an HTTP error other than 429 after two rate limits ends the loop
C38_WitnessRaised ==
  /\ last.op = "run_bot"
  /\ last.at = "raised"
  /\ last.status = 500
  /\ last.waits = << 60, 30 >>

\* ---------------------------------------------------------------- add_animal, remove_animal
\* the two zoo helpers called on a zoo with pigs, golden pigs and bugs, for an
\* animal, a tier and a quantity that may be negative, zero or above the count
ZooCallAnimals == { 1, 4 }

ZooCallMutations == { "none", "golden" }

InitZooCall ==
  /\ \E pigs \in 0..2, golden_pigs \in 0..2, bugs \in 0..1 :
       zoo = [ EmptyZoo EXCEPT ![4]["none"] = pigs, ![4]["golden"] = golden_pigs,
                               ![1]["none"] = bugs ]
  /\ owned_counts = recalculate_owned_counts(zoo)
  /\ team = [ i \in Slots |-> EmptySlot ]
  /\ equipped_foods = << NoFood, NoFood, NoFood >>
  /\ equipped_food_wins = << 0, 0, 0 >>
  /\ coins = 0
  /\ energy = 0
  /\ battles_won = 0
  /\ cooldowns = [ hunt |-> 0, battle |-> 0 ]
  /\ last_enemy_signature = NoSignature
  /\ now = NowStart
  /\ DAILY_COOLDOWNS = 0
  /\ pending = << >>
  /\ foods_owned = NoFoods
  /\ IdleHandler
  /\ \E animal \in ZooCallAnimals, mutation \in ZooCallMutations, qty \in (-1)..MaxOwned :
       last = [ op |-> "zoo_call", animal |-> animal, mutation |-> mutation, qty |-> qty,
                step |-> "new", removed |-> 0, before |-> zoo, start |-> zoo ]

\* add_animal(profile, animal, mutation, qty)
CallAdd ==
  /\ last.op = "zoo_call"
  /\ last.step = "new"
  /\ zoo' = add_animal(zoo, last.animal, last.mutation, last.qty)
  /\ last' = [ last EXCEPT !.step = "added", !.before = zoo ]
  /\ UNCHANGED << owned_counts, team, equipped_foods, equipped_food_wins, coins, energy,
                  battles_won, cooldowns, last_enemy_signature, now, DAILY_COOLDOWNS, pending,
                  foods_owned, battleVars >>

\* remove_animal(profile, animal, mutation, qty), on the zoo as found or right
\* after add_animal with the same arguments
CallRemove ==
  /\ last.op = "zoo_call"
  /\ last.step \in { "new", "added" }
  /\ zoo' = remove_animal(zoo, last.animal, last.mutation, last.qty)
  /\ last' = [ last EXCEPT !.step = IF last.step = "new" THEN "removed" ELSE "restored",
                           !.removed = remove_animal_removed(zoo, last.animal, last.mutation,
                                                             last.qty),
                           !.before = zoo ]
  /\ UNCHANGED << owned_counts, team, equipped_foods, equipped_food_wins, coins, energy,
                  battles_won, cooldowns, last_enemy_signature, now, DAILY_COOLDOWNS, pending,
                  foods_owned, battleVars >>

NextZooCall == CallAdd \/ CallRemove

SpecZooCall == InitZooCall /\ [][NextZooCall]_vars

\* ---------------------------------------------------------------- claims on the zoo helpers
\* C39: remove_animal(animal, tier, q) returns min(owned, max(0, q)), lowers
\* the count of that animal at that tier by the number returned and leaves
\* every other count as it was; add_animal followed by remove_animal with the
\* same arguments restores all counts
C39_RemoveAndRoundTrip ==
  last.op = "zoo_call" =>
    /\ last.step \in { "removed", "restored" } =>
         /\ last.removed = Min2(last.before[last.animal][last.mutation], Max2(0, last.qty))
         /\ zoo[last.animal][last.mutation] =
              last.before[last.animal][last.mutation] - last.removed
         /\ \A a \in AnimalIds, m \in MUTATIONS :
              (a # last.animal \/ m # last.mutation) => zoo[a][m] = last.before[a][m]
    /\ last.step = "restored" => zoo = last.start

\* two units asked of one owned pig: one is removed, the golden pigs and the bug stay
C39_Witness ==
  /\ last.op = "zoo_call"
  /\ last.step = "removed"
  /\ last.animal = 4
  /\ last.mutation = "none"
  /\ last.qty = 2
  /\ last.removed = 1
  /\ last.before[4]["none"] = 1
  /\ zoo[4]["none"] = 0
  /\ zoo[4]["golden"] = 2
  /\ zoo[1]["none"] = 1

\* three golden pigs added to two and removed again
C39_WitnessRoundTrip ==
  /\ last.op = "zoo_call"
  /\ last.step = "restored"
  /\ last.animal = 4
  /\ last.mutation = "golden"
  /\ last.qty = 3
  /\ last.removed = 3
  /\ last.before[4]["golden"] = 5
  /\ zoo[4]["golden"] = 2
====
